---------------------------- MODULE Spec2Model ----------------------------
(***************************************************************************)
(* AWS billing statement parser (src/aws_billing_extractor.py) and the     *)
(* upload handler that calls it (src/app.py).                              *)
(*                                                                         *)
(* A Python str is a sequence of one-character strings, so that            *)
(* startswith, "in", split, rsplit, strip and the two regular expressions  *)
(* are computed on the text itself.  None is a value of its own.  A float  *)
(* is an exact decimal [mant, exp] standing for mant / 10^exp.             *)
(***************************************************************************)
EXTENDS Integers, Sequences, FiniteSets, TLC

VARIABLES lines, i, pc, current_service, current_service_total,
          current_region, current_sub_service, csv_data, response,
          files, file_no, results,
          result, service_lines,
          regions

\* what a run of _parse_lines_to_csv_data and upload_file leaves alone: the
\* files and results of upload_multiple_files, result and service_lines of
\* _parse_lines, and the regions of the ServiceSection _parse_billing_text
\* is filling
other_vars == <<files, file_no, results, result, service_lines, regions>>

vars == <<lines, i, pc, current_service, current_service_total,
          current_region, current_sub_service, csv_data, response,
          files, file_no, results, result, service_lines, regions>>

(***************************************************************************)
(* Python values                                                           *)
(***************************************************************************)
\* None: no Python str is equal to it (every element of a str has length 1).
None == <<"None">>

\* bool(x) for x a str or None: None and '' are false.
Truthy(x) == x # None /\ x # <<>>

\* x or ''
OrEmpty(x) == IF Truthy(x) THEN x ELSE <<>>

Min(S) == CHOOSE x \in S : \A y \in S : x <= y
Max(S) == CHOOSE x \in S : \A y \in S : x >= y

(***************************************************************************)
(* Character classes of str.strip and of the re module (ASCII part)        *)
(***************************************************************************)
Digits == {"0", "1", "2", "3", "4", "5", "6", "7", "8", "9"}

Letters == {"a", "b", "c", "d", "e", "f", "g", "h", "i", "j", "k", "l", "m",
            "n", "o", "p", "q", "r", "s", "t", "u", "v", "w", "x", "y", "z",
            "A", "B", "C", "D", "E", "F", "G", "H", "I", "J", "K", "L", "M",
            "N", "O", "P", "Q", "R", "S", "T", "U", "V", "W", "X", "Y", "Z"}

\* \s and the characters str.strip() removes
Whitespace == {" ", "\t"}

\* [\d,]
DigitComma == Digits \cup {","}

\* [\w\-\/]
UnitChars == Digits \cup Letters \cup {"_", "-", "/"}

DigitValue(c) ==
    CASE c = "0" -> 0 [] c = "1" -> 1 [] c = "2" -> 2 [] c = "3" -> 3
      [] c = "4" -> 4 [] c = "5" -> 5 [] c = "6" -> 6 [] c = "7" -> 7
      [] c = "8" -> 8 [] c = "9" -> 9

(***************************************************************************)
(* str methods                                                             *)
(***************************************************************************)
\* s[a:b] with 1-based inclusive bounds; empty when b < a
Slice(s, a, b) == IF b < a THEN <<>> ELSE SubSeq(s, a, b)

\* sub occurs in s starting at position k
OccursAt(s, sub, k) ==
    /\ k >= 1
    /\ k + Len(sub) - 1 <= Len(s)
    /\ \A j \in 1..Len(sub) : s[k + j - 1] = sub[j]

\* s.startswith(prefix)
StartsWith(s, prefix) == OccursAt(s, prefix, 1)

\* sub in s
Contains(s, sub) == \E k \in 1..(Len(s) - Len(sub) + 1) : OccursAt(s, sub, k)

\* s.rfind(sub), 1-based; 0 when sub does not occur
RFind(s, sub) ==
    LET at == {k \in 1..(Len(s) - Len(sub) + 1) : OccursAt(s, sub, k)}
    IN  IF at = {} THEN 0 ELSE Max(at)

\* s.strip()
Strip(s) ==
    LET keep == {k \in 1..Len(s) : s[k] \notin Whitespace}
    IN  IF keep = {} THEN <<>> ELSE SubSeq(s, Min(keep), Max(keep))

\* s.replace(old, '') for a one-character old
RemoveChar(s, old) == SelectSeq(s, LAMBDA c : c # old)

\* s.rsplit(sep, 1): <<s>> when sep does not occur, else <<before, after>>
\* around the last occurrence
RSplit1(s, sep) ==
    LET k == RFind(s, sep)
    IN  IF k = 0 THEN <<s>>
        ELSE <<Slice(s, 1, k - 1), Slice(s, k + Len(sep), Len(s))>>

\* s.split(sep)[-1]: the text after the last occurrence that the
\* left-to-right scan of split finds.  No occurrence of "USD" overlaps
\* another, so for sep = "USD" that is the last occurrence in s.
SplitLast(s, sep) ==
    LET k == RFind(s, sep)
    IN  IF k = 0 THEN s ELSE Slice(s, k + Len(sep), Len(s))

\* the largest e >= p - 1 such that every character of s[p..e] is in class
RunEnd(s, p, class) ==
    LET stop == {k \in p..Len(s) : s[k] \notin class}
    IN  IF stop = {} THEN Len(s) ELSE Min(stop) - 1

(***************************************************************************)
(* AWSBillingExtractorV2 vocabulary tables, in the order of the source     *)
(***************************************************************************)
\* AWSBillingExtractorV2.SERVICE_KEYWORDS
SERVICE_KEYWORDS == <<
    \* Elastic Container Service
    <<"E", "l", "a", "s", "t", "i", "c", " ", "C", "o", "n", "t", "a", "i", "n", "e", "r", " ", "S", "e", "r", "v", "i", "c", "e">>,
    \* Simple Storage Service
    <<"S", "i", "m", "p", "l", "e", " ", "S", "t", "o", "r", "a", "g", "e", " ", "S", "e", "r", "v", "i", "c", "e">>,
    \* Elastic Compute Cloud
    <<"E", "l", "a", "s", "t", "i", "c", " ", "C", "o", "m", "p", "u", "t", "e", " ", "C", "l", "o", "u", "d">>,
    \* Relational Database Service
    <<"R", "e", "l", "a", "t", "i", "o", "n", "a", "l", " ", "D", "a", "t", "a", "b", "a", "s", "e", " ", "S", "e", "r", "v", "i", "c", "e">>,
    \* Glue
    <<"G", "l", "u", "e">>,
    \* DynamoDB
    <<"D", "y", "n", "a", "m", "o", "D", "B">>,
    \* Virtual Private Cloud
    <<"V", "i", "r", "t", "u", "a", "l", " ", "P", "r", "i", "v", "a", "t", "e", " ", "C", "l", "o", "u", "d">>,
    \* Data Transfer
    <<"D", "a", "t", "a", " ", "T", "r", "a", "n", "s", "f", "e", "r">>,
    \* Athena
    <<"A", "t", "h", "e", "n", "a">>,
    \* Lambda
    <<"L", "a", "m", "b", "d", "a">>,
    \* Elastic Load Balancing
    <<"E", "l", "a", "s", "t", "i", "c", " ", "L", "o", "a", "d", " ", "B", "a", "l", "a", "n", "c", "i", "n", "g">>,
    \* Kinesis
    <<"K", "i", "n", "e", "s", "i", "s">>,
    \* CloudWatch
    <<"C", "l", "o", "u", "d", "W", "a", "t", "c", "h">>,
    \* EC2 Container Registry
    <<"E", "C", "2", " ", "C", "o", "n", "t", "a", "i", "n", "e", "r", " ", "R", "e", "g", "i", "s", "t", "r", "y">>,
    \* Key Management Service
    <<"K", "e", "y", " ", "M", "a", "n", "a", "g", "e", "m", "e", "n", "t", " ", "S", "e", "r", "v", "i", "c", "e">>,
    \* Elastic File System
    <<"E", "l", "a", "s", "t", "i", "c", " ", "F", "i", "l", "e", " ", "S", "y", "s", "t", "e", "m">>,
    \* S3 Glacier Deep Archive
    <<"S", "3", " ", "G", "l", "a", "c", "i", "e", "r", " ", "D", "e", "e", "p", " ", "A", "r", "c", "h", "i", "v", "e">>,
    \* Secrets Manager
    <<"S", "e", "c", "r", "e", "t", "s", " ", "M", "a", "n", "a", "g", "e", "r">>,
    \* Route 53
    <<"R", "o", "u", "t", "e", " ", "5", "3">>,
    \* Cost Explorer
    <<"C", "o", "s", "t", " ", "E", "x", "p", "l", "o", "r", "e", "r">>,
    \* Simple Email Service
    <<"S", "i", "m", "p", "l", "e", " ", "E", "m", "a", "i", "l", " ", "S", "e", "r", "v", "i", "c", "e">>,
    \* Simple Queue Service
    <<"S", "i", "m", "p", "l", "e", " ", "Q", "u", "e", "u", "e", " ", "S", "e", "r", "v", "i", "c", "e">>,
    \* Certificate Manager
    <<"C", "e", "r", "t", "i", "f", "i", "c", "a", "t", "e", " ", "M", "a", "n", "a", "g", "e", "r">>,
    \* Simple Notification Service
    <<"S", "i", "m", "p", "l", "e", " ", "N", "o", "t", "i", "f", "i", "c", "a", "t", "i", "o", "n", " ", "S", "e", "r", "v", "i", "c", "e">>,
    \* CloudFront
    <<"C", "l", "o", "u", "d", "F", "r", "o", "n", "t">>,
    \* Savings Plans
    <<"S", "a", "v", "i", "n", "g", "s", " ", "P", "l", "a", "n", "s">>,
    \* Tax
    <<"T", "a", "x">>,
    \* Support
    <<"S", "u", "p", "p", "o", "r", "t">>
>>

\* AWSBillingExtractorV2.REGION_KEYWORDS
REGION_KEYWORDS == <<
    \* Asia Pacific (Seoul)
    <<"A", "s", "i", "a", " ", "P", "a", "c", "i", "f", "i", "c", " ", "(", "S", "e", "o", "u", "l", ")">>,
    \* Asia Pacific (Tokyo)
    <<"A", "s", "i", "a", " ", "P", "a", "c", "i", "f", "i", "c", " ", "(", "T", "o", "k", "y", "o", ")">>,
    \* Asia Pacific (Singapore)
    <<"A", "s", "i", "a", " ", "P", "a", "c", "i", "f", "i", "c", " ", "(", "S", "i", "n", "g", "a", "p", "o", "r", "e", ")">>,
    \* Asia Pacific (Mumbai)
    <<"A", "s", "i", "a", " ", "P", "a", "c", "i", "f", "i", "c", " ", "(", "M", "u", "m", "b", "a", "i", ")">>,
    \* Asia Pacific (Hong Kong)
    <<"A", "s", "i", "a", " ", "P", "a", "c", "i", "f", "i", "c", " ", "(", "H", "o", "n", "g", " ", "K", "o", "n", "g", ")">>,
    \* Asia Pacific (Osaka)
    <<"A", "s", "i", "a", " ", "P", "a", "c", "i", "f", "i", "c", " ", "(", "O", "s", "a", "k", "a", ")">>,
    \* Asia Pacific (Sydney)
    <<"A", "s", "i", "a", " ", "P", "a", "c", "i", "f", "i", "c", " ", "(", "S", "y", "d", "n", "e", "y", ")">>,
    \* Asia Pacific (Jakarta)
    <<"A", "s", "i", "a", " ", "P", "a", "c", "i", "f", "i", "c", " ", "(", "J", "a", "k", "a", "r", "t", "a", ")">>,
    \* US East (N. Virginia)
    <<"U", "S", " ", "E", "a", "s", "t", " ", "(", "N", ".", " ", "V", "i", "r", "g", "i", "n", "i", "a", ")">>,
    \* US East (Ohio)
    <<"U", "S", " ", "E", "a", "s", "t", " ", "(", "O", "h", "i", "o", ")">>,
    \* US West (Oregon)
    <<"U", "S", " ", "W", "e", "s", "t", " ", "(", "O", "r", "e", "g", "o", "n", ")">>,
    \* US West (N. California)
    <<"U", "S", " ", "W", "e", "s", "t", " ", "(", "N", ".", " ", "C", "a", "l", "i", "f", "o", "r", "n", "i", "a", ")">>,
    \* EU (Ireland)
    <<"E", "U", " ", "(", "I", "r", "e", "l", "a", "n", "d", ")">>,
    \* EU (Frankfurt)
    <<"E", "U", " ", "(", "F", "r", "a", "n", "k", "f", "u", "r", "t", ")">>,
    \* EU (London)
    <<"E", "U", " ", "(", "L", "o", "n", "d", "o", "n", ")">>,
    \* EU (Paris)
    <<"E", "U", " ", "(", "P", "a", "r", "i", "s", ")">>,
    \* EU (Stockholm)
    <<"E", "U", " ", "(", "S", "t", "o", "c", "k", "h", "o", "l", "m", ")">>,
    \* EU (Milan)
    <<"E", "U", " ", "(", "M", "i", "l", "a", "n", ")">>,
    \* South America (Sao Paulo)
    <<"S", "o", "u", "t", "h", " ", "A", "m", "e", "r", "i", "c", "a", " ", "(", "S", "a", "o", " ", "P", "a", "u", "l", "o", ")">>,
    \* Canada (Central)
    <<"C", "a", "n", "a", "d", "a", " ", "(", "C", "e", "n", "t", "r", "a", "l", ")">>,
    \* Middle East (Bahrain)
    <<"M", "i", "d", "d", "l", "e", " ", "E", "a", "s", "t", " ", "(", "B", "a", "h", "r", "a", "i", "n", ")">>,
    \* Africa (Cape Town)
    <<"A", "f", "r", "i", "c", "a", " ", "(", "C", "a", "p", "e", " ", "T", "o", "w", "n", ")">>,
    \* Any
    <<"A", "n", "y">>,
    \* Global
    <<"G", "l", "o", "b", "a", "l">>
>>

\* the literal "USD"
USD == <<"U", "S", "D">>

\* the boilerplate marker of lines 453 and 634
ChargesByService == <<"C", "h", "a", "r", "g", "e", "s", " ", "b", "y", " ", "s", "e", "r", "v", "i", "c", "e">>

(***************************************************************************)
(* float                                                                   *)
(***************************************************************************)
RECURSIVE NatOf(_)
\* the number a string of decimal digits denotes
NatOf(ds) ==
    IF ds = <<>> THEN 0
    ELSE 10 * NatOf(SubSeq(ds, 1, Len(ds) - 1)) + DigitValue(ds[Len(ds)])

RECURSIVE Normal(_, _)
\* mant / 10^exp without trailing fraction zeros: 12.00 and 12.0 are one float
Normal(mant, exp) ==
    IF exp > 0 /\ mant % 10 = 0 THEN Normal(mant \div 10, exp - 1)
    ELSE [mant |-> mant, exp |-> exp]

\* what float(s) raises on a string that is no number
ValueError == [raised |-> "ValueError"]

\* what match.group() raises when match is None
AttributeError == [raised |-> "AttributeError"]

\* v stands for an exception raised, not for a value
Raises(v) == v \in {ValueError, AttributeError}

\* float(s) for s of the shape [-]digits[.digits]; ValueError otherwise
float(s) ==
    LET neg  == s # <<>> /\ s[1] = "-"
        body == IF neg THEN Slice(s, 2, Len(s)) ELSE s
        dots == {k \in 1..Len(body) : body[k] = "."}
        ip   == IF dots = {} THEN body ELSE Slice(body, 1, Min(dots) - 1)
        fp   == IF dots = {} THEN <<>> ELSE Slice(body, Min(dots) + 1, Len(body))
        ok   == /\ Cardinality(dots) <= 1
                /\ ip \o fp # <<>>
                /\ \A k \in 1..Len(ip) : ip[k] \in Digits
                /\ \A k \in 1..Len(fp) : fp[k] \in Digits
        mag  == Normal(NatOf(ip \o fp), Len(fp))
    IN  IF ~ok THEN ValueError
        ELSE IF neg THEN [mant |-> 0 - mag.mant, exp |-> mag.exp] ELSE mag

\* the float 0.0
Zero == [mant |-> 0, exp |-> 0]

(***************************************************************************)
(* Regular expressions                                                     *)
(***************************************************************************)
\* re.search(r'[\d,]+\.?\d*', s).group(), or None: the leftmost match, each
\* quantifier greedy (nothing follows the pattern, so nothing backtracks)
AmountSearch(s) ==
    LET starts == {k \in 1..Len(s) : s[k] \in DigitComma}
    IN  IF starts = {} THEN None
        ELSE LET k == Min(starts)
                 a == RunEnd(s, k, DigitComma)
                 b == IF a < Len(s) /\ s[a + 1] = "." THEN a + 1 ELSE a
                 d == RunEnd(s, b + 1, Digits)
             IN  Slice(s, k, d)

\* re.search found nothing
NoQtyMatch == [start |-> 0, group1 |-> <<>>, group2 |-> <<>>]

\* A match of r'([\d,]+\.?\d*)\s*([\w\-\/]+)$' that starts at position k, or
\* NoQtyMatch.  a, dot, d, w are where [\d,]+, \.?, \d* and \s* end; the engine
\* tries the longest of each first and backtracks in that order, so the
\* match it returns is the greatest <<a, dot, d, w>> that reaches the end.
QtyMatchAt(s, k) ==
    LET UnitAt(w)  == w < Len(s) /\ \A j \in (w + 1)..Len(s) : s[j] \in UnitChars
        Ws(d)      == {w \in d..RunEnd(s, d + 1, Whitespace) : UnitAt(w)}
        Ds(a, dot) == {d \in (a + dot)..RunEnd(s, a + dot + 1, Digits) : Ws(d) # {}}
        Dots(a)    == {dot \in {0, 1} :
                          /\ dot = 1 => (a < Len(s) /\ s[a + 1] = ".")
                          /\ Ds(a, dot) # {}}
        As         == {a \in k..RunEnd(s, k, DigitComma) : Dots(a) # {}}
    IN  IF As = {} THEN NoQtyMatch
        ELSE LET a   == Max(As)
                 dot == Max(Dots(a))
                 d   == Max(Ds(a, dot))
                 w   == Max(Ws(d))
             IN  [start |-> k,
                  group1 |-> Slice(s, k, d),
                  group2 |-> Slice(s, w + 1, Len(s))]

\* re.search(r'([\d,]+\.?\d*)\s*([\w\-\/]+)$', left_part): the leftmost match
qty_match(left_part) ==
    LET starts == {k \in 1..Len(left_part) :
                      left_part[k] \in DigitComma /\ QtyMatchAt(left_part, k) # NoQtyMatch}
    IN  IF starts = {} THEN NoQtyMatch ELSE QtyMatchAt(left_part, Min(starts))

(***************************************************************************)
(* Classifiers of _parse_lines_to_csv_data                                 *)
(***************************************************************************)
\* is_service_header(line): <<svc, "USD" + total>> for the first keyword
\* the line starts with, when the line holds "USD"; else <<None, None>>
is_service_header(line) ==
    LET hits == {k \in 1..Len(SERVICE_KEYWORDS) :
                    StartsWith(line, SERVICE_KEYWORDS[k]) /\ Contains(line, USD)}
    IN  IF hits = {} THEN <<None, None>>
        ELSE <<SERVICE_KEYWORDS[Min(hits)], USD \o Strip(SplitLast(line, USD))>>

\* is_region_header(line): <<region, total>> for the first keyword the line
\* starts with; total is '' when the line holds no "USD"
is_region_header(line) ==
    LET hits == {k \in 1..Len(REGION_KEYWORDS) : StartsWith(line, REGION_KEYWORDS[k])}
    IN  IF hits = {} THEN <<None, None>>
        ELSE <<REGION_KEYWORDS[Min(hits)],
               IF Contains(line, USD) THEN USD \o Strip(SplitLast(line, USD)) ELSE <<>> >>

\* the test of lines 477-479
is_sub_service_header(line) ==
    \/ StartsWith(line, <<"A", "m", "a", "z", "o", "n", " ">>)
    \/ StartsWith(line, <<"A", "W", "S", " ">>)
    \/ StartsWith(line, <<"E", "B", "S", " ">>)
    \/ StartsWith(line, <<"B", "a", "n", "d", "w", "i", "d", "t", "h", " ">>)
    \/ Contains(line, <<"E", "l", "a", "s", "t", "i", "c", " ", "L", "o", "a", "d", " ", "B", "a", "l", "a", "n", "c", "i", "n", "g", " ", "-">>)

\* lines 480-482: the label a sub-service header line sets, or None when the
\* line holds no "USD" and current_sub_service is left as it is
sub_service_label(line) ==
    IF Contains(line, USD) THEN Strip(RSplit1(line, USD)[1]) ELSE None

\* parse_amount whose pattern takes a leading minus sign: r'-?[\d,]+\.?\d*'
parse_amount_signed(amount_str) ==
    IF ~Truthy(amount_str) THEN Zero
    ELSE LET s     == RemoveChar(amount_str, ",")
             match == AmountSearch(s)
             k     == CHOOSE j \in 1..Len(s) : s[j] \in DigitComma
         IN  IF match = None THEN Zero
             ELSE IF k > 1 /\ s[k - 1] = "-"
                  THEN float(<<"-">> \o RemoveChar(match, ","))
                  ELSE float(RemoveChar(match, ","))

\* parse_amount with the test of line 441 left out
parse_amount_match_unchecked(amount_str) ==
    IF ~Truthy(amount_str) THEN Zero
    ELSE LET match == AmountSearch(RemoveChar(amount_str, ","))
         IN  IF match # None THEN float(RemoveChar(match, ",")) ELSE AttributeError

\* parse_amount(amount_str)
parse_amount(amount_str) ==
    IF ~Truthy(amount_str) THEN Zero
    ELSE LET match == AmountSearch(RemoveChar(amount_str, ","))
         IN  IF match # None THEN float(RemoveChar(match, ",")) ELSE Zero

\* usage_fields with the description of line 497 not cut at the start of
\* the match
usage_fields_desc_not_cut(line) ==
    LET parts     == RSplit1(line, USD)
        left_part == Strip(parts[1])
        amount    == IF Len(parts) > 1 THEN USD \o Strip(parts[2]) ELSE <<>>
        m         == qty_match(left_part)
    IN  IF m # NoQtyMatch
        THEN [desc |-> Strip(left_part),
              qty |-> m.group1, unit |-> m.group2, amount |-> amount]
        ELSE [desc |-> left_part, qty |-> <<>>, unit |-> <<>>, amount |-> amount]

\* usage_fields with the strip() of line 497 left out
usage_fields_desc_not_stripped(line) ==
    LET parts     == RSplit1(line, USD)
        left_part == Strip(parts[1])
        amount    == IF Len(parts) > 1 THEN USD \o Strip(parts[2]) ELSE <<>>
        m         == qty_match(left_part)
    IN  IF m # NoQtyMatch
        THEN [desc |-> Slice(left_part, 1, m.start - 1),
              qty |-> m.group1, unit |-> m.group2, amount |-> amount]
        ELSE [desc |-> left_part, qty |-> <<>>, unit |-> <<>>, amount |-> amount]

\* lines 488-501: left_part, amount, qty, unit and desc of a line that
\* holds "USD"
usage_fields(line) ==
    LET parts     == RSplit1(line, USD)
        left_part == Strip(parts[1])
        amount    == IF Len(parts) > 1 THEN USD \o Strip(parts[2]) ELSE <<>>
        m         == qty_match(left_part)
    IN  IF m # NoQtyMatch
        THEN [desc |-> Strip(Slice(left_part, 1, m.start - 1)),
              qty |-> m.group1, unit |-> m.group2, amount |-> amount]
        ELSE [desc |-> left_part, qty |-> <<>>, unit |-> <<>>, amount |-> amount]

(***************************************************************************)
(* Input: the text lines of the uploaded statement                         *)
(***************************************************************************)
\* The lines a page's text can hold, as page.extract_text() gives them.  A
\* statement is a sequence of line numbers of this catalog.
Catalog == <<
    \* 1: Lambda USD 12.00
    <<"L", "a", "m", "b", "d", "a", " ", "U", "S", "D", " ", "1", "2", ".", "0", "0">>,
    \* 2: Glue USD 3.00
    <<"G", "l", "u", "e", " ", "U", "S", "D", " ", "3", ".", "0", "0">>,
    \* 3: Asia Pacific (Seoul) USD 12.00
    <<"A", "s", "i", "a", " ", "P", "a", "c", "i", "f", "i", "c", " ", "(", "S", "e", "o", "u", "l", ")", " ", "U", "S", "D", " ", "1", "2", ".", "0", "0">>,
    \* 4: Amazon Lambda Requests USD 12.00
    <<"A", "m", "a", "z", "o", "n", " ", "L", "a", "m", "b", "d", "a", " ", "R", "e", "q", "u", "e", "s", "t", "s", " ", "U", "S", "D", " ", "1", "2", ".", "0", "0">>,
    \* 5: $0.0000002 per request 60,000,000 Requests USD 12.00
    <<"$", "0", ".", "0", "0", "0", "0", "0", "0", "2", " ", "p", "e", "r", " ", "r", "e", "q", "u", "e", "s", "t", " ", "6", "0", ",", "0", "0", "0", ",", "0", "0", "0", " ", "R", "e", "q", "u", "e", "s", "t", "s", " ", "U", "S", "D", " ", "1", "2", ".", "0", "0">>,
    \* 6: 5 GB USD 1.00
    <<"5", " ", "G", "B", " ", "U", "S", "D", " ", "1", ".", "0", "0">>,
    \* 7: a line of two blanks
    <<" ", " ">>,
    \* 8: Charges by service
    <<"C", "h", "a", "r", "g", "e", "s", " ", "b", "y", " ", "s", "e", "r", "v", "i", "c", "e">>,
    \* 9: Global
    <<"G", "l", "o", "b", "a", "l">>,
    \* 10: AWS Lambda
    <<"A", "W", "S", " ", "L", "a", "m", "b", "d", "a">>,
    \* 11: Storage 1,024.5 GB USD 1,234.50, indented
    <<" ", " ", "S", "t", "o", "r", "a", "g", "e", " ", "1", ",", "0", "2", "4", ".", "5", " ", "G", "B", " ", "U", "S", "D", " ", "1", ",", "2", "3", "4", ".", "5", "0">>,
    \* 12: Credit USD -5.00
    <<"C", "r", "e", "d", "i", "t", " ", "U", "S", "D", " ", "-", "5", ".", "0", "0">>,
    \* 13: Refund USD
    <<"R", "e", "f", "u", "n", "d", " ", "U", "S", "D">>,
    \* 14: Page 1
    <<"P", "a", "g", "e", " ", "1">>,
    \* 15: Lambda Charges by service USD 5.00
    <<"L", "a", "m", "b", "d", "a", " ", "C", "h", "a", "r", "g", "e", "s", " ", "b", "y", " ", "s", "e", "r", "v", "i", "c", "e", " ", "U", "S", "D", " ", "5", ".", "0", "0">>,
    \* 16: Global Charges by service USD 1.00
    <<"G", "l", "o", "b", "a", "l", " ", "C", "h", "a", "r", "g", "e", "s", " ", "b", "y", " ", "s", "e", "r", "v", "i", "c", "e", " ", "U", "S", "D", " ", "1", ".", "0", "0">>,
    \* 17: Elastic Load Balancing USD 20.00
    <<"E", "l", "a", "s", "t", "i", "c", " ", "L", "o", "a", "d", " ", "B", "a", "l", "a", "n", "c", "i", "n", "g", " ", "U", "S", "D", " ", "2", "0", ".", "0", "0">>,
    \* 18: Elastic Load Balancing - Application USD 15.00
    <<"E", "l", "a", "s", "t", "i", "c", " ", "L", "o", "a", "d", " ", "B", "a", "l", "a", "n", "c", "i", "n", "g", " ", "-", " ", "A", "p", "p", "l", "i", "c", "a", "t", "i", "o", "n", " ", "U", "S", "D", " ", "1", "5", ".", "0", "0">>,
    \* 19: EC2 Elastic Load Balancing - Network USD 5.00
    <<"E", "C", "2", " ", "E", "l", "a", "s", "t", "i", "c", " ", "L", "o", "a", "d", " ", "B", "a", "l", "a", "n", "c", "i", "n", "g", " ", "-", " ", "N", "e", "t", "w", "o", "r", "k", " ", "U", "S", "D", " ", "5", ".", "0", "0">>,
    \* 20: $0.0225 per hour 100 Hrs USD 2.25
    <<"$", "0", ".", "0", "2", "2", "5", " ", "p", "e", "r", " ", "h", "o", "u", "r", " ", "1", "0", "0", " ", "H", "r", "s", " ", "U", "S", "D", " ", "2", ".", "2", "5">>,
    \* 21: Storage 5GB USD 1.00
    <<"S", "t", "o", "r", "a", "g", "e", " ", "5", "G", "B", " ", "U", "S", "D", " ", "1", ".", "0", "0">>,
    \* 22: Port 8080 USD 1.00
    <<"P", "o", "r", "t", " ", "8", "0", "8", "0", " ", "U", "S", "D", " ", "1", ".", "0", "0">>,
    \* 23: Tax USD 1.00 USD 0.10
    <<"T", "a", "x", " ", "U", "S", "D", " ", "1", ".", "0", "0", " ", "U", "S", "D", " ", "0", ".", "1", "0">>,
    \* 24: Snapshots 10 GB-Mo USD 0.50
    <<"S", "n", "a", "p", "s", "h", "o", "t", "s", " ", "1", "0", " ", "G", "B", "-", "M", "o", " ", "U", "S", "D", " ", "0", ".", "5", "0">>,
    \* 25: Instances 3 db_t3 USD 1.00
    <<"I", "n", "s", "t", "a", "n", "c", "e", "s", " ", "3", " ", "d", "b", "_", "t", "3", " ", "U", "S", "D", " ", "1", ".", "0", "0">>
>>

\* the longest statement over MainLines, in lines
MaxLines == 5

\* two services, a region, a sub-service with its total, an accepted and a
\* rejected usage line, a blank line and the boilerplate line
MainLines == {1, 2, 3, 4, 5, 6, 7, 8}

\* the longest statement over AmountLines, in lines
MaxAmountLines == 4

\* a service, a region without a total, a sub-service prefix without "USD",
\* usage lines whose text after "USD" is an amount with commas, a negative
\* amount and no amount, a rejected usage line, a blank line, the
\* boilerplate line and a line no classifier takes
AmountLines == {1, 6, 7, 8, 9, 10, 11, 12, 13, 14}

\* the longest statement over OrderLines, in lines
MaxOrderLines == 5

\* a service, a region, a sub-service with its total, two usage lines of
\* different text, a blank line and the boilerplate line
OrderLines == {1, 3, 4, 5, 7, 8, 12}

\* every statement of at most n lines over the catalog lines ids
Statements(ids, n) == UNION {[1..k -> ids] : k \in 0..n}

\* _read_pdf_lines and lines 395-401: every line is stripped when it is read
Text == [k \in DOMAIN Catalog |-> Strip(Catalog[k])]

(***************************************************************************)
(* upload_file's answers (src/app.py)                                      *)
(***************************************************************************)
NoResponse == [status |-> 0]

\* jsonify({'error': ...}), 400 of line 59
ExtractFailed == [status |-> 400, error |-> "cannot extract billing data from the PDF"]

\* jsonify({'error': ...}), 500 of line 80
ProcessingError == [status |-> 500, error |-> "error while processing"]

\* send_file of the CSV made from csv_data
CsvDownload(rows) == [status |-> 200, rows |-> rows]

\* lines 58-77 with the test of line 58 left out
answer_without_empty_test(rows) == CsvDownload(rows)

\* lines 58-77: upload_file's answer to the rows extract_to_csv_data returned
answer(rows) == IF rows = <<>> THEN ExtractFailed ELSE CsvDownload(rows)

(***************************************************************************)
(* _parse_lines_to_csv_data, one action per branch of the loop             *)
(***************************************************************************)
TypeOK ==
    /\ i \in 0..Len(lines)
    /\ pc \in {"loop", "returned", "raised", "responded"}

\* lines[i] of the source, where i counts from 0
line == Text[lines[i + 1]]

\* branch with the region test moved out of "if current_service:"
branch_region_before_service(l, in_service) ==
    IF ~Truthy(l) THEN "blank"
    ELSE IF Contains(l, ChargesByService) THEN "boilerplate"
    ELSE IF Truthy(is_service_header(l)[1]) THEN "service"
    ELSE IF Truthy(is_region_header(l)[1]) THEN "region"
    ELSE IF ~in_service THEN "none"
    ELSE IF is_sub_service_header(l) THEN "sub_service"
    ELSE IF Contains(l, USD) THEN "usage"
    ELSE "none"

\* branch with the boilerplate test of lines 453-455 after the header tests
branch_boilerplate_after_headers(l, in_service) ==
    IF ~Truthy(l) THEN "blank"
    ELSE IF Truthy(is_service_header(l)[1]) THEN "service"
    ELSE IF in_service /\ Truthy(is_region_header(l)[1]) THEN "region"
    ELSE IF Contains(l, ChargesByService) THEN "boilerplate"
    ELSE IF ~in_service THEN "none"
    ELSE IF is_sub_service_header(l) THEN "sub_service"
    ELSE IF Contains(l, USD) THEN "usage"
    ELSE "none"

\* branch with the sub-service test moved out of "if current_service:"
branch_sub_service_before_service(l, in_service) ==
    IF ~Truthy(l) THEN "blank"
    ELSE IF Contains(l, ChargesByService) THEN "boilerplate"
    ELSE IF Truthy(is_service_header(l)[1]) THEN "service"
    ELSE IF is_sub_service_header(l) THEN "sub_service"
    ELSE IF ~in_service THEN "none"
    ELSE IF Truthy(is_region_header(l)[1]) THEN "region"
    ELSE IF Contains(l, USD) THEN "usage"
    ELSE "none"

\* The branch of the loop body (lines 449-514) a line takes; in_service is
\* bool(current_service).
branch(l, in_service) ==
    IF ~Truthy(l) THEN "blank"
    ELSE IF Contains(l, ChargesByService) THEN "boilerplate"
    ELSE IF Truthy(is_service_header(l)[1]) THEN "service"
    ELSE IF ~in_service THEN "none"
    ELSE IF Truthy(is_region_header(l)[1]) THEN "region"
    ELSE IF is_sub_service_header(l) THEN "sub_service"
    ELSE IF Contains(l, USD) THEN "usage"
    ELSE "none"

\* What the parser computes from a line depends on the line's text alone, so
\* each is worked out once for every line of the catalog: branch,
\* is_service_header, is_region_header, the sub-service label of line 482,
\* usage_fields, and parse_amount of the amount string.
branch_of ==
    [k \in DOMAIN Catalog, in_service \in BOOLEAN |-> branch(Text[k], in_service)]

service_header_of == [k \in DOMAIN Catalog |-> is_service_header(Text[k])]

region_header_of == [k \in DOMAIN Catalog |-> is_region_header(Text[k])]

sub_service_of == [k \in DOMAIN Catalog |-> sub_service_label(Text[k])]

fields_of == [k \in DOMAIN Catalog |-> usage_fields(Text[k])]

amount_of == [k \in DOMAIN Catalog |-> parse_amount(usage_fields(Text[k]).amount)]

\* the catalog number of lines[i]
line_no == lines[i + 1]

InLoop(b) ==
    /\ pc = "loop"
    /\ i < Len(lines)
    /\ branch_of[line_no, Truthy(current_service)] = b

\* the state when _parse_lines_to_csv_data enters its loop on a statement
Start(statements) ==
    /\ lines \in statements
    /\ i = 0
    /\ pc = "loop"
    /\ csv_data = <<>>
    /\ current_service = None
    /\ current_service_total = <<>>
    /\ current_region = None
    /\ current_sub_service = None
    /\ response = NoResponse
    /\ files = <<>>
    /\ file_no = 0
    /\ results = <<>>
    /\ result = <<>>
    /\ service_lines = <<>>
    /\ regions = <<>>

\* SkipBlank with the i += 1 of line 450 left out: the loop stays on the
\* blank line
SkipBlank_without_increment ==
    /\ InLoop("blank")
    /\ UNCHANGED <<lines, i, pc, current_service, current_service_total,
                   current_region, current_sub_service, csv_data, response>>
    /\ UNCHANGED other_vars

\* lines 449-451
SkipBlank ==
    /\ InLoop("blank")
    /\ i' = i + 1
    /\ UNCHANGED <<lines, pc, current_service, current_service_total,
                   current_region, current_sub_service, csv_data, response>>
    /\ UNCHANGED other_vars

\* lines 453-455
SkipBoilerplate ==
    /\ InLoop("boilerplate")
    /\ i' = i + 1
    /\ UNCHANGED <<lines, pc, current_service, current_service_total,
                   current_region, current_sub_service, csv_data, response>>
    /\ UNCHANGED other_vars

\* ServiceHeader with line 462 left out: the region stays current
ServiceHeader_keeps_region ==
    /\ InLoop("service")
    /\ current_service' = service_header_of[line_no][1]
    /\ current_service_total' = service_header_of[line_no][2]
    /\ current_sub_service' = None
    /\ i' = i + 1
    /\ UNCHANGED <<lines, pc, current_region, csv_data, response>>
    /\ UNCHANGED other_vars

\* lines 458-465
ServiceHeader ==
    /\ InLoop("service")
    /\ current_service' = service_header_of[line_no][1]
    /\ current_service_total' = service_header_of[line_no][2]
    /\ current_region' = None
    /\ current_sub_service' = None
    /\ i' = i + 1
    /\ UNCHANGED <<lines, pc, csv_data, response>>
    /\ UNCHANGED other_vars

\* lines 469-474
RegionHeader ==
    /\ InLoop("region")
    /\ current_region' = region_header_of[line_no][1]
    /\ current_sub_service' = None
    /\ i' = i + 1
    /\ UNCHANGED <<lines, pc, current_service, current_service_total,
                   csv_data, response>>
    /\ UNCHANGED other_vars

\* the dict of lines 504-512, given the parsed amount
Record(service, region, f, amt) ==
    [Service |-> service,
     Region |-> OrEmpty(region),
     Description |-> f.desc,
     Usage_Quantity |-> f.qty,
     Usage_Unit |-> f.unit,
     Amount |-> amt,
     Amount_Unit |-> USD]

\* SubServiceHeader that also records the sub-service total as an item, as
\* _parse_billing_text does in lines 192-194
SubServiceHeader_emits_total ==
    /\ InLoop("sub_service")
    /\ current_sub_service' =
          IF sub_service_of[line_no] # None THEN sub_service_of[line_no]
          ELSE current_sub_service
    /\ csv_data' =
          IF sub_service_of[line_no] # None
          THEN Append(csv_data, Record(current_service, current_region,
                          [desc |-> sub_service_of[line_no], qty |-> <<>>, unit |-> <<>>],
                          amount_of[line_no]))
          ELSE csv_data
    /\ i' = i + 1
    /\ UNCHANGED <<lines, pc, current_service, current_service_total,
                   current_region, response>>
    /\ UNCHANGED other_vars

\* lines 477-484
SubServiceHeader ==
    /\ InLoop("sub_service")
    /\ current_sub_service' =
          IF sub_service_of[line_no] # None THEN sub_service_of[line_no] ELSE current_sub_service
    /\ i' = i + 1
    /\ UNCHANGED <<lines, pc, current_service, current_service_total,
                   current_region, csv_data, response>>
    /\ UNCHANGED other_vars

\* UsageLine that takes a usage line only inside a region, as
\* _parse_billing_text does in line 200
UsageLine_needs_region ==
    /\ InLoop("usage")
    /\ LET f == fields_of[line_no]
       IN  IF Truthy(f.desc) /\ Truthy(f.amount) /\ Truthy(current_region)
           THEN LET amt == amount_of[line_no]
                IN  IF Raises(amt)
                    THEN /\ pc' = "raised"
                         /\ UNCHANGED <<i, csv_data>>
                    ELSE /\ csv_data' = Append(csv_data,
                                Record(current_service, current_region, f, amt))
                         /\ i' = i + 1
                         /\ UNCHANGED pc
           ELSE /\ i' = i + 1
                /\ UNCHANGED <<pc, csv_data>>
    /\ UNCHANGED <<lines, current_service, current_service_total,
                   current_region, current_sub_service, response>>
    /\ UNCHANGED other_vars

\* UsageLine with the test of desc in line 503 left out
UsageLine_accepts_empty_desc ==
    /\ InLoop("usage")
    /\ LET f == fields_of[line_no]
       IN  IF Truthy(f.amount)
           THEN LET amt == amount_of[line_no]
                IN  IF Raises(amt)
                    THEN /\ pc' = "raised"
                         /\ UNCHANGED <<i, csv_data>>
                    ELSE /\ csv_data' = Append(csv_data,
                                Record(current_service, current_region, f, amt))
                         /\ i' = i + 1
                         /\ UNCHANGED pc
           ELSE /\ i' = i + 1
                /\ UNCHANGED <<pc, csv_data>>
    /\ UNCHANGED <<lines, current_service, current_service_total,
                   current_region, current_sub_service, response>>
    /\ UNCHANGED other_vars

\* UsageLine that puts the record at the head of csv_data
UsageLine_prepends ==
    /\ InLoop("usage")
    /\ LET f == fields_of[line_no]
       IN  IF Truthy(f.desc) /\ Truthy(f.amount)
           THEN LET amt == amount_of[line_no]
                IN  IF Raises(amt)
                    THEN /\ pc' = "raised"
                         /\ UNCHANGED <<i, csv_data>>
                    ELSE /\ csv_data' = <<Record(current_service, current_region, f, amt)>>
                                            \o csv_data
                         /\ i' = i + 1
                         /\ UNCHANGED pc
           ELSE /\ i' = i + 1
                /\ UNCHANGED <<pc, csv_data>>
    /\ UNCHANGED <<lines, current_service, current_service_total,
                   current_region, current_sub_service, response>>
    /\ UNCHANGED other_vars

\* lines 487-514
UsageLine ==
    /\ InLoop("usage")
    /\ LET f == fields_of[line_no]
       IN  IF Truthy(f.desc) /\ Truthy(f.amount)
           THEN LET amt == amount_of[line_no]
                IN  IF Raises(amt)
                    THEN /\ pc' = "raised"
                         /\ UNCHANGED <<i, csv_data>>
                    ELSE /\ csv_data' = Append(csv_data,
                                Record(current_service, current_region, f, amt))
                         /\ i' = i + 1
                         /\ UNCHANGED pc
           ELSE /\ i' = i + 1
                /\ UNCHANGED <<pc, csv_data>>
    /\ UNCHANGED <<lines, current_service, current_service_total,
                   current_region, current_sub_service, response>>
    /\ UNCHANGED other_vars

\* line 514, reached when no branch took the line
NoMatch ==
    /\ InLoop("none")
    /\ i' = i + 1
    /\ UNCHANGED <<lines, pc, current_service, current_service_total,
                   current_region, current_sub_service, csv_data, response>>
    /\ UNCHANGED other_vars

\* lines 446 and 516: the loop ends and csv_data is returned
Return ==
    /\ pc = "loop"
    /\ i >= Len(lines)
    /\ pc' = "returned"
    /\ UNCHANGED <<lines, i, current_service, current_service_total,
                   current_region, current_sub_service, csv_data, response>>
    /\ UNCHANGED other_vars

\* upload_file, lines 58-80, on what extract_to_csv_data gave
upload_file ==
    /\ pc \in {"returned", "raised"}
    /\ response' = IF pc = "raised" THEN ProcessingError ELSE answer(csv_data)
    /\ pc' = "responded"
    /\ UNCHANGED <<lines, i, current_service, current_service_total,
                   current_region, current_sub_service, csv_data>>
    /\ UNCHANGED other_vars

Init == Start(Statements(MainLines, MaxLines))

InitAmounts == Start(Statements(AmountLines, MaxAmountLines))

InitOrder == Start(Statements(OrderLines, MaxOrderLines))

Next ==
    \/ SkipBlank
    \/ SkipBoilerplate
    \/ ServiceHeader
    \/ RegionHeader
    \/ SubServiceHeader
    \/ UsageLine
    \/ NoMatch
    \/ Return
    \/ upload_file

Spec == Init /\ [][Next]_vars

SpecAmounts == InitAmounts /\ [][Next]_vars

SpecOrder == InitOrder /\ [][Next]_vars

(***************************************************************************)
(* The statement read so far, seen from outside the parser                 *)
(***************************************************************************)
\* the text of line k of the statement
TextAt(k) == Text[lines[k]]

\* line k of the statement is a Service Header line
IsServiceLine(k) == branch_of[lines[k], FALSE] = "service"

\* the last Service Header line before line k, or 0
LastServiceLine(k) ==
    LET S == {j \in 1..(k - 1) : IsServiceLine(j)}
    IN  IF S = {} THEN 0 ELSE Max(S)

\* the last Region Header line before line k that follows the last Service
\* Header line before line k, or 0
LastRegionLine(k) ==
    LET s == LastServiceLine(k)
        R == {j \in (s + 1)..(k - 1) : s > 0 /\ branch_of[lines[j], TRUE] = "region"}
    IN  IF R = {} THEN 0 ELSE Max(R)

\* line k is a usage line the parser accepts: it follows a Service Header,
\* no header classifier takes it, it holds "USD" and its description and
\* amount are not empty
AcceptedUsageLine(k) ==
    /\ LastServiceLine(k) > 0
    /\ branch_of[lines[k], TRUE] = "usage"
    /\ Truthy(fields_of[lines[k]].desc)
    /\ Truthy(fields_of[lines[k]].amount)

\* the step appends one record to csv_data
Emits == Len(csv_data') = Len(csv_data) + 1

\* the record a step has appended
Emitted == csv_data'[Len(csv_data')]

\* the parser is about to read a line
AtLine == pc = "loop" /\ i < Len(lines)

(***************************************************************************)
(* C1                                                                      *)
(***************************************************************************)
\* C1: every record the parser emits carries as Service the name of the last
\* Service Header line before its usage line, and as Region the name of the
\* last Region Header line between that Service Header and the usage line
\* ('' when there is none): a region announced under an earlier service is
\* never carried over.
C1_RecordCarriesCurrentContext ==
    [][Emits =>
         LET s == LastServiceLine(i + 1)
             r == LastRegionLine(i + 1)
         IN  /\ s > 0
             /\ Emitted.Service = service_header_of[lines[s]][1]
             /\ Emitted.Region = IF r = 0 THEN <<>> ELSE region_header_of[lines[r]][1]
      ]_vars

\* C1 witness: a region was announced under a first service, a second
\* service followed, and a usage line of the second service was emitted.
C1_Witness ==
    /\ i = 4
    /\ IsServiceLine(1)
    /\ branch_of[lines[2], TRUE] = "region"
    /\ IsServiceLine(3)
    /\ service_header_of[lines[3]][1] # service_header_of[lines[1]][1]
    /\ AcceptedUsageLine(4)
    /\ Len(csv_data) = 1
    /\ csv_data[1].Service = service_header_of[lines[3]][1]

(***************************************************************************)
(* C2                                                                      *)
(***************************************************************************)
\* C2: the number of records equals the number of accepted usage lines read
\* so far; header lines and rejected lines add none.
C2_RecordCountIsAcceptedCount ==
    pc \in {"loop", "returned", "responded"} =>
        Len(csv_data) = Cardinality({k \in 1..i : AcceptedUsageLine(k)})

\* C2 witness: a statement with a sub-service header line holding a total
\* and two accepted usage lines has been read to its end.
C2_Witness ==
    /\ pc = "returned"
    /\ Len(csv_data) = 2
    /\ \E k \in 1..i : /\ LastServiceLine(k) > 0
                       /\ branch_of[lines[k], TRUE] = "sub_service"
                       /\ Contains(TextAt(k), USD)

(***************************************************************************)
(* C3                                                                      *)
(***************************************************************************)
\* the four lines of the example
C3_Lines == <<
    <<"L", "a", "m", "b", "d", "a", " ", "U", "S", "D", " ", "1", "2", ".", "0", "0">>,
    <<"A", "s", "i", "a", " ", "P", "a", "c", "i", "f", "i", "c", " ", "(", "S", "e", "o", "u", "l", ")", " ", "U", "S", "D", " ", "1", "2", ".", "0", "0">>,
    <<"A", "m", "a", "z", "o", "n", " ", "L", "a", "m", "b", "d", "a", " ", "R", "e", "q", "u", "e", "s", "t", "s", " ", "U", "S", "D", " ", "1", "2", ".", "0", "0">>,
    <<"$", "0", ".", "0", "0", "0", "0", "0", "0", "2", " ", "p", "e", "r", " ", "r", "e", "q", "u", "e", "s", "t", " ", "6", "0", ",", "0", "0", "0", ",", "0", "0", "0", " ", "R", "e", "q", "u", "e", "s", "t", "s", " ", "U", "S", "D", " ", "1", "2", ".", "0", "0">>
>>

\* the one record of the example
C3_Record ==
    [Service |-> <<"L", "a", "m", "b", "d", "a">>,
     Region |-> <<"A", "s", "i", "a", " ", "P", "a", "c", "i", "f", "i", "c", " ", "(", "S", "e", "o", "u", "l", ")">>,
     Description |-> <<"$", "0", ".", "0", "0", "0", "0", "0", "0", "2", " ", "p", "e", "r", " ", "r", "e", "q", "u", "e", "s", "t">>,
     Usage_Quantity |-> <<"6", "0", ",", "0", "0", "0", ",", "0", "0", "0">>,
     Usage_Unit |-> <<"R", "e", "q", "u", "e", "s", "t", "s">>,
     Amount |-> [mant |-> 12, exp |-> 0],
     Amount_Unit |-> <<"U", "S", "D">>]

\* C3: on the four lines of the example the parser returns exactly the one
\* record Service=Lambda, Region=Asia Pacific (Seoul),
\* Description="$0.0000002 per request", Usage_Quantity=60,000,000,
\* Usage_Unit=Requests, Amount=12.00.
C3_ExampleRecord ==
    ([k \in 1..Len(lines) |-> TextAt(k)] = C3_Lines /\ pc = "returned") => csv_data = <<C3_Record>>

\* C3 witness: the example has been parsed to its end.
C3_Witness == [k \in 1..Len(lines) |-> TextAt(k)] = C3_Lines /\ pc = "returned" /\ i = 4 /\ csv_data # <<>>

(***************************************************************************)
(* C4                                                                      *)
(***************************************************************************)
\* C4 as stated: no record is emitted for a line holding "USD" that comes
\* after a Service Header but before any Region Header of that service.
C4_NoRecordBeforeRegion ==
    [][(/\ AtLine
        /\ LastServiceLine(i + 1) > 0
        /\ LastRegionLine(i + 1) = 0
        /\ Contains(line, USD)) => ~Emits]_vars

\* C4 amended: the usage-line branch needs a current service, not a current
\* region.  A line before any Service Header emits no record; a usage line
\* with a description that comes after a Service Header and before any
\* Region Header of that service emits one record, whose Region is ''.
C4_UsageNeedsServiceOnly ==
    [][AtLine =>
         /\ LastServiceLine(i + 1) = 0 => ~Emits
         /\ (/\ AcceptedUsageLine(i + 1)
             /\ LastRegionLine(i + 1) = 0) => (Emits /\ Emitted.Region = <<>>)
      ]_vars

\* C4 witness: a Service Header line and then a usage line have been read,
\* and the usage line's record has the Region ''.
C4_Witness ==
    /\ i = 2
    /\ IsServiceLine(1)
    /\ AcceptedUsageLine(2)
    /\ Len(csv_data) = 1
    /\ csv_data[1].Region = <<>>

(***************************************************************************)
(* C5                                                                      *)
(***************************************************************************)
\* C5: before any Service Header no region is current, and a line that
\* starts with a region name is passed over: service, region, sub-service
\* and the records stay as they are and the parser moves to the next line.
C5_RegionLineWithoutServiceIgnored ==
    [][(AtLine /\ LastServiceLine(i + 1) = 0) =>
         /\ current_region = None
         /\ Truthy(region_header_of[line_no][1]) =>
              /\ i' = i + 1
              /\ pc' = "loop"
              /\ current_service' = None
              /\ current_region' = None
              /\ UNCHANGED <<current_service_total, current_sub_service, csv_data>>
      ]_vars

\* C5 witness: a region line came before the first Service Header, and the
\* usage line after that header was emitted with the Region ''.
C5_Witness ==
    /\ i = 3
    /\ Truthy(region_header_of[lines[1]][1])
    /\ IsServiceLine(2)
    /\ AcceptedUsageLine(3)
    /\ Len(csv_data) = 1
    /\ csv_data[1].Region = <<>>
    /\ current_region = None

(***************************************************************************)
(* C6                                                                      *)
(***************************************************************************)
\* C6: in every record Service and Description are non-empty strings.
C6_ServiceAndDescriptionNonEmpty ==
    \A k \in 1..Len(csv_data) :
        /\ Truthy(csv_data[k].Service)
        /\ Truthy(csv_data[k].Description)

\* C6 witness: a record whose Region is empty while its Service and
\* Description are not.
C6_Witness ==
    \E k \in 1..Len(csv_data) :
        /\ csv_data[k].Region = <<>>
        /\ csv_data[k].Service # <<>>
        /\ csv_data[k].Description # <<>>

(***************************************************************************)
(* C7                                                                      *)
(***************************************************************************)
\* C7: in every record Amount is a number that is not negative and
\* Amount_Unit is "USD".
C7_AmountNonNegativeUnitUSD ==
    \A k \in 1..Len(csv_data) :
        /\ ~Raises(csv_data[k].Amount)
        /\ csv_data[k].Amount.mant >= 0
        /\ csv_data[k].Amount.exp >= 0
        /\ csv_data[k].Amount_Unit = USD

\* C7 witness: the records of "Credit USD -5.00" and of "Refund USD" have
\* been emitted, the first with the amount 5.0 and the second with 0.0.
C7_Witness ==
    \E j, k \in 1..Len(csv_data) :
        /\ csv_data[j].Description = <<"C", "r", "e", "d", "i", "t">>
        /\ csv_data[j].Amount = [mant |-> 5, exp |-> 0]
        /\ csv_data[k].Description = <<"R", "e", "f", "u", "n", "d">>
        /\ csv_data[k].Amount = Zero

(***************************************************************************)
(* C8                                                                      *)
(***************************************************************************)
\* no line of the statement holds "USD"
NoUSDAnywhere == \A k \in 1..Len(lines) : ~Contains(TextAt(k), USD)

\* InputEmpty: no line is left once blank and boilerplate lines are dropped
InputEmpty ==
    \A k \in 1..Len(lines) :
        TextAt(k) = <<>> \/ Contains(TextAt(k), ChargesByService)

\* C8 as stated: a statement without "USD" that has lines left yields no
\* record, and its answer differs from answer(<<>>), the answer to a
\* statement with no line left.
C8_NoHeaderToldApartFromEmpty ==
    (pc = "responded" /\ NoUSDAnywhere /\ ~InputEmpty) =>
        (csv_data = <<>> /\ response # answer(<<>>))

\* C8 amended: a statement without "USD" yields no record, and upload_file
\* gives it the very answer it gives a statement with no line left, the
\* status 400 with the one extraction error.
C8_NoUSDSameAnswerAsEmpty ==
    (pc = "responded" /\ (NoUSDAnywhere \/ InputEmpty)) =>
        (csv_data = <<>> /\ response = ExtractFailed)

\* C8 witness: a statement without "USD" that has a line left has been
\* answered.
C8_Witness ==
    /\ pc = "responded"
    /\ NoUSDAnywhere
    /\ ~InputEmpty
    /\ response = ExtractFailed

(***************************************************************************)
(* C9                                                                      *)
(***************************************************************************)
\* no classifier takes line k: it is no Service Header line, and either no
\* service is current or it starts with no region name and no sub-service
\* prefix and holds no "USD"
NoClassifierTakes(k) ==
    /\ ~Truthy(service_header_of[lines[k]][1])
    /\ \/ LastServiceLine(k) = 0
       \/ /\ ~Truthy(region_header_of[lines[k]][1])
          /\ ~is_sub_service_header(TextAt(k))
          /\ ~Contains(TextAt(k), USD)

\* the amount string of line k holds no digit
NoDigitInAmount(k) ==
    \A j \in 1..Len(fields_of[lines[k]].amount) :
        fields_of[lines[k]].amount[j] \notin Digits

\* C9: the parser never raises; it returns only when every line has been
\* read, and each step of the loop reads exactly one line; a line no
\* classifier takes leaves service, region, sub-service and records as they
\* are; an emitted record whose amount string holds no digit has Amount 0.0.
C9_NoLineAbortsTheParse ==
    /\ [](pc # "raised")
    /\ [](pc \in {"returned", "responded"} => i = Len(lines))
    /\ [][AtLine =>
            /\ i' = i + 1
            /\ pc' = "loop"
            /\ NoClassifierTakes(i + 1) =>
                 UNCHANGED <<current_service, current_service_total,
                             current_region, current_sub_service, csv_data>>
            /\ (Emits /\ NoDigitInAmount(i + 1)) => Emitted.Amount = Zero
       ]_vars

\* C9 witness: a statement with a line no classifier takes after a Service
\* Header and a usage line without a digit in its amount has been read to
\* its end, and that usage line's record has the amount 0.0.
C9_Witness ==
    /\ pc = "returned"
    /\ \E j, k \in 1..Len(lines) :
          /\ LastServiceLine(j) > 0
          /\ NoClassifierTakes(j)
          /\ TextAt(j) # <<>>
          /\ AcceptedUsageLine(k)
          /\ NoDigitInAmount(k)
    /\ \E r \in 1..Len(csv_data) : csv_data[r].Amount = Zero

(***************************************************************************)
(* C10                                                                     *)
(***************************************************************************)
\* usage line k lies in a region and a sub-service is current there: a
\* sub-service header line holding "USD" lies between the region's header
\* and line k
UnderSubService(k) ==
    /\ LastRegionLine(k) > 0
    /\ \E j \in (LastRegionLine(k) + 1)..(k - 1) :
          /\ branch_of[lines[j], TRUE] = "sub_service"
          /\ sub_service_of[lines[j]] # None

\* usage line k lies in a region and no sub-service is current there
DirectItem(k) == LastRegionLine(k) > 0 /\ ~UnderSubService(k)

\* lines j and k lie in the same region of the same service
SameRegion(j, k) ==
    /\ LastServiceLine(j) = LastServiceLine(k)
    /\ LastRegionLine(j) = LastRegionLine(k)
    /\ LastRegionLine(j) > 0

\* record r of csv_data has the description, quantity and unit of line k
RecordOfLine(r, k) ==
    /\ csv_data[r].Description = fields_of[lines[k]].desc
    /\ csv_data[r].Usage_Quantity = fields_of[lines[k]].qty
    /\ csv_data[r].Usage_Unit = fields_of[lines[k]].unit

\* the accepted usage lines among the first k lines, in line order
RECURSIVE AcceptedLines(_)
AcceptedLines(k) ==
    IF k = 0 THEN <<>>
    ELSE IF AcceptedUsageLine(k) THEN Append(AcceptedLines(k - 1), k)
    ELSE AcceptedLines(k - 1)

\* C10 as stated: within one region the record of a usage line under a
\* sub-service comes before the record of a direct item of that region.
C10_SubServiceItemsBeforeDirectItems ==
    pc = "returned" =>
        \A d, s \in 1..Len(lines) :
            (/\ AcceptedUsageLine(d) /\ DirectItem(d)
             /\ AcceptedUsageLine(s) /\ UnderSubService(s)
             /\ SameRegion(d, s)
             /\ fields_of[lines[d]] # fields_of[lines[s]]) =>
                \A a, b \in 1..Len(csv_data) :
                    (RecordOfLine(a, s) /\ RecordOfLine(b, d)) => a < b

\* C10 amended: the flat record list is in the order of the lines: record r
\* is the record of the r-th accepted usage line of the statement, under a
\* sub-service or not.
C10_RecordsInLineOrder ==
    pc \in {"loop", "returned", "responded"} =>
        /\ Len(csv_data) = Len(AcceptedLines(i))
        /\ \A r \in 1..Len(csv_data) : RecordOfLine(r, AcceptedLines(i)[r])

\* C10 witness: in one region a direct item came before a usage line under
\* a sub-service, and the direct item's record is the first of the two.
C10_Witness ==
    /\ pc = "returned"
    /\ Len(csv_data) = 2
    /\ \E d, s \in 1..Len(lines) :
          /\ d < s
          /\ AcceptedUsageLine(d) /\ DirectItem(d)
          /\ AcceptedUsageLine(s) /\ UnderSubService(s)
          /\ SameRegion(d, s)
          /\ fields_of[lines[d]] # fields_of[lines[s]]
          /\ RecordOfLine(1, d)
          /\ RecordOfLine(2, s)


(***************************************************************************)
(* upload_multiple_files (src/app.py): one extractor, many files           *)
(***************************************************************************)
\* the most files of one request
MaxFiles == 2

\* the most lines of text in the files of one request, taken together
MaxRequestLines == 3

\* a service, a region, a sub-service with its total, an accepted usage
\* line, a blank line and the boilerplate line
MultiLines == {1, 3, 4, 7, 8, 12}

\* An uploaded file: "skipped" has an empty or a not allowed name (line 99),
\* "unreadable" makes pdfplumber.open raise, "pdf" holds the lines of text.
FileKinds == {"skipped", "unreadable", "pdf"}

\* the ways to cut a text of len lines into m pieces, empty ones included
Cuts(m, len) ==
    {c \in [1..(m + 1) -> 0..len] :
        /\ c[1] = 0
        /\ c[m + 1] = len
        /\ \A j \in 1..m : c[j] <= c[j + 1]}

\* the request of the files that the cuts c make of the text s, file j being
\* of kind k[j]; a file that is not a PDF holds no text
Request(s, c, k) ==
    [j \in DOMAIN k |->
        IF k[j] = "pdf"
        THEN [kind |-> "pdf", text |-> Slice(s, c[j] + 1, c[j + 1])]
        ELSE [kind |-> k[j], text |-> <<>>]]

\* The one answer of lines 113-114.
MergeFailed == [status |-> 400, error |-> "cannot extract data from the PDFs"]

\* the file the loop of line 98 is at
file == files[file_no + 1]

\* the loop of line 98 is between two files
AtFile == pc = "next_file" /\ file_no < Len(files)

\* lines 99-100: a file without an allowed name is passed over
SkipFile ==
    /\ AtFile
    /\ file.kind = "skipped"
    /\ file_no' = file_no + 1
    /\ UNCHANGED <<lines, i, pc, current_service, current_service_total,
                   current_region, current_sub_service, csv_data, response,
                   files, results, result, service_lines, regions>>

\* extract_to_csv_data entering _parse_lines_to_csv_data with the context
\* the call before it left behind
extract_to_csv_data_keeps_context ==
    /\ AtFile
    /\ file.kind # "skipped"
    /\ IF file.kind = "unreadable"
       THEN /\ pc' = "raised"
            /\ UNCHANGED <<lines, i, csv_data>>
       ELSE /\ lines' = file.text
            /\ i' = 0
            /\ csv_data' = <<>>
            /\ pc' = "loop"
    /\ UNCHANGED <<current_service, current_service_total, current_region,
                   current_sub_service>>
    /\ UNCHANGED <<response, files, file_no, results, result, service_lines, regions>>

\* line 104 of app.py: extract_to_csv_data(pdf_bytes=...), lines 394-409,
\* reads the text and enters _parse_lines_to_csv_data, whose lines 413-417
\* make the record list and the context anew
extract_to_csv_data ==
    /\ AtFile
    /\ file.kind # "skipped"
    /\ IF file.kind = "unreadable"
       THEN /\ pc' = "raised"
            /\ UNCHANGED <<lines, i, csv_data, current_service,
                           current_service_total, current_region,
                           current_sub_service>>
       ELSE /\ lines' = file.text
            /\ i' = 0
            /\ csv_data' = <<>>
            /\ current_service' = None
            /\ current_service_total' = <<>>
            /\ current_region' = None
            /\ current_sub_service' = None
            /\ pc' = "loop"
    /\ UNCHANGED <<response, files, file_no, results, result, service_lines, regions>>

\* lines 106-107: the rows of the file are added to results
ExtendResults ==
    /\ pc = "returned"
    /\ results' = results \o csv_data
    /\ file_no' = file_no + 1
    /\ pc' = "next_file"
    /\ UNCHANGED <<lines, i, current_service, current_service_total,
                   current_region, current_sub_service, csv_data, response,
                   files, result, service_lines, regions>>

\* lines 109-111: a file that raised is passed over
FileFailed ==
    /\ pc = "raised"
    /\ file_no' = file_no + 1
    /\ pc' = "next_file"
    /\ UNCHANGED <<lines, i, current_service, current_service_total,
                   current_region, current_sub_service, csv_data, response,
                   files, results, result, service_lines, regions>>

\* lines 113-127: the answer once every file has been read
upload_multiple_files ==
    /\ pc = "next_file"
    /\ file_no >= Len(files)
    /\ response' = IF results = <<>> THEN MergeFailed ELSE CsvDownload(results)
    /\ pc' = "responded"
    /\ UNCHANGED <<lines, i, current_service, current_service_total,
                   current_region, current_sub_service, csv_data,
                   files, file_no, results, result, service_lines, regions>>

\* lines 95-96: results is empty and no file has been read
InitMulti ==
    /\ \E m \in 0..MaxFiles, s \in Statements(MultiLines, MaxRequestLines) :
          \E c \in Cuts(m, Len(s)), k \in [1..m -> FileKinds] :
              files = Request(s, c, k)
    /\ file_no = 0
    /\ results = <<>>
    /\ pc = "next_file"
    /\ lines = <<>>
    /\ i = 0
    /\ csv_data = <<>>
    /\ current_service = None
    /\ current_service_total = <<>>
    /\ current_region = None
    /\ current_sub_service = None
    /\ response = NoResponse
    /\ result = <<>>
    /\ service_lines = <<>>
    /\ regions = <<>>

NextMulti ==
    \/ SkipFile
    \/ extract_to_csv_data
    \/ SkipBlank
    \/ SkipBoilerplate
    \/ ServiceHeader
    \/ RegionHeader
    \/ SubServiceHeader
    \/ UsageLine
    \/ NoMatch
    \/ Return
    \/ ExtendResults
    \/ FileFailed
    \/ upload_multiple_files

SpecMulti == InitMulti /\ [][NextMulti]_vars

(***************************************************************************)
(* A document seen from outside the parser                                 *)
(***************************************************************************)
\* the last Service Header line of doc before its line k, or 0
DocServiceLine(doc, k) ==
    LET S == {j \in 1..(k - 1) : branch_of[doc[j], FALSE] = "service"}
    IN  IF S = {} THEN 0 ELSE Max(S)

\* the last Region Header line of doc before its line k that follows the
\* last Service Header line before line k, or 0
DocRegionLine(doc, k) ==
    LET s == DocServiceLine(doc, k)
        R == {j \in (s + 1)..(k - 1) : s > 0 /\ branch_of[doc[j], TRUE] = "region"}
    IN  IF R = {} THEN 0 ELSE Max(R)

\* line k of doc is a usage line a parse of doc alone accepts
DocAccepted(doc, k) ==
    /\ DocServiceLine(doc, k) > 0
    /\ branch_of[doc[k], TRUE] = "usage"
    /\ Truthy(fields_of[doc[k]].desc)
    /\ Truthy(fields_of[doc[k]].amount)

\* the record of the accepted usage line k of doc
DocRecord(doc, k) ==
    LET s == DocServiceLine(doc, k)
        r == DocRegionLine(doc, k)
    IN  [Service |-> service_header_of[doc[s]][1],
         Region |-> IF r = 0 THEN <<>> ELSE region_header_of[doc[r]][1],
         Description |-> fields_of[doc[k]].desc,
         Usage_Quantity |-> fields_of[doc[k]].qty,
         Usage_Unit |-> fields_of[doc[k]].unit,
         Amount |-> amount_of[doc[k]],
         Amount_Unit |-> USD]

\* the records of the first k lines of doc, parsed on its own
RECURSIVE DocRecords(_, _)
DocRecords(doc, k) ==
    IF k = 0 THEN <<>>
    ELSE IF DocAccepted(doc, k) THEN Append(DocRecords(doc, k - 1), DocRecord(doc, k))
    ELSE DocRecords(doc, k - 1)

\* the records of the first n files of the request, each parsed on its own
RECURSIVE Concatenated(_)
Concatenated(n) ==
    IF n = 0 THEN <<>>
    ELSE IF files[n].kind = "pdf"
         THEN Concatenated(n - 1) \o DocRecords(files[n].text, Len(files[n].text))
         ELSE Concatenated(n - 1)

(***************************************************************************)
(* C11                                                                     *)
(***************************************************************************)
\* C11: between two files and in the answer, results is the concatenation,
\* in file order, of the records each document read so far gives when it is
\* parsed on its own from an empty context; the records a document adds are
\* those of a parse of that document alone.
C11_ResultsAreConcatenation ==
    /\ pc \in {"next_file", "responded"} => results = Concatenated(file_no)
    /\ pc = "returned" => csv_data = DocRecords(lines, Len(lines))

\* C11 witness: the first document ended inside a service after one record,
\* the second is a usage line without a Service Header of its own, and the
\* answer holds the record of the first document alone.
C11_Witness ==
    /\ pc = "responded"
    /\ Len(files) = 2
    /\ files[1].kind = "pdf"
    /\ files[2].kind = "pdf"
    /\ Len(files[1].text) = 2
    /\ branch_of[files[1].text[1], FALSE] = "service"
    /\ DocAccepted(files[1].text, 2)
    /\ Len(files[2].text) = 1
    /\ branch_of[files[2].text[1], TRUE] = "usage"
    /\ Len(results) = 1
    /\ response = CsvDownload(results)

(***************************************************************************)
(* AWSBillingExtractorV2._parse_lines: the report                          *)
(***************************************************************************)
\* lines 554-563 and 566-575: _parse_lines lists the names of
\* SERVICE_KEYWORDS and of REGION_KEYWORDS again, the same names in the
\* same order
service_keywords == SERVICE_KEYWORDS

region_keywords == REGION_KEYWORDS

\* is_service_header of lines 577-585
parse_lines_is_service_header(l) ==
    LET hits == {k \in 1..Len(service_keywords) :
                    StartsWith(l, service_keywords[k]) /\ Contains(l, USD)}
    IN  IF hits = {} THEN <<None, None>>
        ELSE <<service_keywords[Min(hits)], USD \o Strip(SplitLast(l, USD))>>

\* is_region_header of lines 587-595
parse_lines_is_region_header(l) ==
    LET hits == {k \in 1..Len(region_keywords) : StartsWith(l, region_keywords[k])}
    IN  IF hits = {} THEN <<None, None>>
        ELSE <<region_keywords[Min(hits)],
               IF Contains(l, USD) THEN USD \o Strip(SplitLast(l, USD)) ELSE <<>> >>

\* the test of lines 661-663
parse_lines_is_sub_service_header(l) ==
    \/ StartsWith(l, <<"A", "m", "a", "z", "o", "n", " ">>)
    \/ StartsWith(l, <<"A", "W", "S", " ">>)
    \/ StartsWith(l, <<"E", "B", "S", " ">>)
    \/ StartsWith(l, <<"B", "a", "n", "d", "w", "i", "d", "t", "h", " ">>)
    \/ Contains(l, <<"E", "l", "a", "s", "t", "i", "c", " ", "L", "o", "a", "d", " ", "B", "a", "l", "a", "n", "c", "i", "n", "g", " ", "-">>)

\* no entry is added to service_lines
NoEntry == [type |-> "none", content |-> <<>>]

\* lines 664-668: the entry a sub-service header line adds, or NoEntry when
\* the line holds no "USD"
sub_service_entry(l) ==
    IF Contains(l, USD)
    THEN LET parts == RSplit1(l, USD)
         IN  [type |-> "sub_service",
              content |-> <<Strip(parts[1]), USD \o Strip(parts[2])>>]
    ELSE NoEntry

\* lines 675-686: desc, qty and amount of a usage line; qty is the number, a
\* blank and the unit
item_fields(l) ==
    LET parts     == RSplit1(l, USD)
        left_part == Strip(parts[1])
        amount    == IF Len(parts) > 1 THEN USD \o Strip(parts[2]) ELSE <<>>
        m         == qty_match(left_part)
    IN  IF m # NoQtyMatch
        THEN [desc |-> Strip(Slice(left_part, 1, m.start - 1)),
              qty |-> m.group1 \o <<" ">> \o m.group2, amount |-> amount]
        ELSE [desc |-> left_part, qty |-> <<>>, amount |-> amount]

\* The branch of the loop body (lines 629-691) a line takes; in_service is
\* bool(current_service).
parse_lines_branch(l, in_service) ==
    IF ~Truthy(l) THEN "blank"
    ELSE IF Contains(l, ChargesByService) THEN "boilerplate"
    ELSE IF Truthy(parse_lines_is_service_header(l)[1]) THEN "service"
    ELSE IF ~in_service THEN "none"
    ELSE IF Truthy(parse_lines_is_region_header(l)[1]) THEN "region"
    ELSE IF parse_lines_is_sub_service_header(l) THEN "sub_service"
    ELSE IF Contains(l, USD) THEN "usage"
    ELSE "none"

\* each worked out once for every line of the catalog
report_branch_of ==
    [k \in DOMAIN Catalog, in_service \in BOOLEAN |-> parse_lines_branch(Text[k], in_service)]

report_service_of == [k \in DOMAIN Catalog |-> parse_lines_is_service_header(Text[k])]

report_region_of == [k \in DOMAIN Catalog |-> parse_lines_is_region_header(Text[k])]

report_sub_service_of == [k \in DOMAIN Catalog |-> sub_service_entry(Text[k])]

report_item_of == [k \in DOMAIN Catalog |-> item_fields(Text[k])]

\* the Hangul of lines 601-602, a syllable an element: "hap gye" is the
\* total, "sa yong ryang (sut ja)" the usage and "geum aek" the amount
Tabs5 == <<"\t", "\t", "\t", "\t", "\t">>

ColumnsLine ==
    <<"\t", "\t", "\t", "sa", "yong", "ryang", " ", "(", "sut", "ja", ")",
      "\t", "\t", "geum", "aek", " ", "(", "U", "S", "D", ")">>

TotalLabel == <<"hap", "gye">>

\* sep.join(strs)
RECURSIVE Join(_, _)
Join(strs, sep) ==
    IF strs = <<>> THEN <<>>
    ELSE IF Len(strs) = 1 THEN strs[1]
    ELSE strs[1] \o sep \o Join(Tail(strs), sep)

\* lines 605-619: the output line of one entry of lines_data
entry_line(line_info) ==
    LET content == line_info.content
    IN  IF line_info.type \in {"region", "sub_service"}
        THEN content[1] \o (IF Truthy(content[2]) THEN Tabs5 \o content[2] ELSE <<>>)
        ELSE IF Truthy(content[2])
             THEN content[1] \o <<"\t">> \o content[2] \o <<"\t", "\t">> \o content[3]
             ELSE content[1] \o <<"\t", "\t", "\t">> \o content[3]

\* format_service_block that prints the total parsed to a number and
\* written back with the blank of the statement's line
format_service_block_respaced(service_name, service_total, lines_data) ==
    Join(<<<<"[">> \o service_name \o <<"]">>,
           ColumnsLine,
           TotalLabel \o Tabs5 \o USD \o <<" ">> \o Slice(service_total, 4, Len(service_total))>>
         \o [k \in 1..Len(lines_data) |-> entry_line(lines_data[k])]
         \o << <<>> >>,
         <<"\n">>)

\* format_service_block(service_name, service_total, lines_data), lines
\* 597-622
format_service_block(service_name, service_total, lines_data) ==
    Join(<<<<"[">> \o service_name \o <<"]">>,
           ColumnsLine,
           TotalLabel \o Tabs5 \o service_total>>
         \o [k \in 1..Len(lines_data) |-> entry_line(lines_data[k])]
         \o << <<>> >>,
         <<"\n">>)

\* lines 642-643 and 694-695 without the test of service_lines
flushed_also_when_empty ==
    IF Truthy(current_service)
    THEN Append(result, format_service_block(current_service,
                            current_service_total, service_lines))
    ELSE result

\* lines 642-643 and 694-695: result once the service in progress is put out
flushed ==
    IF Truthy(current_service) /\ service_lines # <<>>
    THEN Append(result, format_service_block(current_service,
                            current_service_total, service_lines))
    ELSE result

InReport(b) ==
    /\ pc = "report"
    /\ i < Len(lines)
    /\ report_branch_of[line_no, Truthy(current_service)] = b

\* a caller hands the lines to _parse_lines: lines 546-551 and 624
parse_lines_called ==
    /\ pc = "returned"
    /\ pc' = "report"
    /\ result' = <<>>
    /\ current_service' = None
    /\ current_service_total' = <<>>
    /\ current_region' = None
    /\ current_sub_service' = None
    /\ service_lines' = <<>>
    /\ i' = 0
    /\ UNCHANGED <<lines, csv_data, response, files, file_no, results, regions>>

\* lines 629-631
ReportSkipBlank ==
    /\ InReport("blank")
    /\ i' = i + 1
    /\ UNCHANGED <<lines, pc, current_service, current_service_total,
                   current_region, current_sub_service, csv_data, response,
                   files, file_no, results, result, service_lines, regions>>

\* lines 634-636
ReportSkipBoilerplate ==
    /\ InReport("boilerplate")
    /\ i' = i + 1
    /\ UNCHANGED <<lines, pc, current_service, current_service_total,
                   current_region, current_sub_service, csv_data, response,
                   files, file_no, results, result, service_lines, regions>>

\* lines 639-649
ReportServiceHeader ==
    /\ InReport("service")
    /\ result' = flushed
    /\ current_service' = report_service_of[line_no][1]
    /\ current_service_total' = report_service_of[line_no][2]
    /\ service_lines' = <<>>
    /\ i' = i + 1
    /\ UNCHANGED <<lines, pc, current_region, current_sub_service, csv_data,
                   response, files, file_no, results, regions>>

\* lines 654-658
ReportRegionHeader ==
    /\ InReport("region")
    /\ service_lines' = Append(service_lines,
                               [type |-> "region", content |-> report_region_of[line_no]])
    /\ i' = i + 1
    /\ UNCHANGED <<lines, pc, current_service, current_service_total,
                   current_region, current_sub_service, csv_data, response,
                   files, file_no, results, result, regions>>

\* lines 661-670
ReportSubServiceHeader ==
    /\ InReport("sub_service")
    /\ service_lines' =
          IF report_sub_service_of[line_no] # NoEntry
          THEN Append(service_lines, report_sub_service_of[line_no])
          ELSE service_lines
    /\ i' = i + 1
    /\ UNCHANGED <<lines, pc, current_service, current_service_total,
                   current_region, current_sub_service, csv_data, response,
                   files, file_no, results, result, regions>>

\* ReportUsageLine without the test of desc in line 688
ReportUsageLine_accepts_empty_desc ==
    /\ InReport("usage")
    /\ LET f == report_item_of[line_no]
       IN  service_lines' =
              IF Truthy(f.amount)
              THEN Append(service_lines,
                          [type |-> "item", content |-> <<f.desc, f.qty, f.amount>>])
              ELSE service_lines
    /\ i' = i + 1
    /\ UNCHANGED <<lines, pc, current_service, current_service_total,
                   current_region, current_sub_service, csv_data, response,
                   files, file_no, results, result, regions>>

\* lines 673-691
ReportUsageLine ==
    /\ InReport("usage")
    /\ LET f == report_item_of[line_no]
       IN  service_lines' =
              IF Truthy(f.desc) /\ Truthy(f.amount)
              THEN Append(service_lines,
                          [type |-> "item", content |-> <<f.desc, f.qty, f.amount>>])
              ELSE service_lines
    /\ i' = i + 1
    /\ UNCHANGED <<lines, pc, current_service, current_service_total,
                   current_region, current_sub_service, csv_data, response,
                   files, file_no, results, result, regions>>

\* line 691, reached when no branch took the line
ReportNoMatch ==
    /\ InReport("none")
    /\ i' = i + 1
    /\ UNCHANGED <<lines, pc, current_service, current_service_total,
                   current_region, current_sub_service, csv_data, response,
                   files, file_no, results, result, service_lines, regions>>

\* lines 625 and 694-697: the loop ends, the last service is put out and
\* the blocks are joined into the text that is returned
ReportReturn ==
    /\ pc = "report"
    /\ i >= Len(lines)
    /\ result' = flushed
    /\ response' = [text |-> Join(flushed, <<"\n">>)]
    /\ pc' = "report_returned"
    /\ UNCHANGED <<lines, i, current_service, current_service_total,
                   current_region, current_sub_service, csv_data,
                   files, file_no, results, service_lines, regions>>

\* the longest statement over ReportLines, in lines
MaxReportLines == 4

\* two services, the second with two "USD", a region, a sub-service with
\* its total, an accepted and a rejected usage line, a blank line and two
\* boilerplate lines, one that starts with a service name and one that
\* starts with a region name
ReportLines == {1, 3, 4, 6, 7, 12, 15, 16, 23}

InitReport == Start(Statements(ReportLines, MaxReportLines))

\* the flat parse of the lines, and then their report
NextReport ==
    \/ SkipBlank
    \/ SkipBoilerplate
    \/ ServiceHeader
    \/ RegionHeader
    \/ SubServiceHeader
    \/ UsageLine
    \/ NoMatch
    \/ Return
    \/ parse_lines_called
    \/ ReportSkipBlank
    \/ ReportSkipBoilerplate
    \/ ReportServiceHeader
    \/ ReportRegionHeader
    \/ ReportSubServiceHeader
    \/ ReportUsageLine
    \/ ReportNoMatch
    \/ ReportReturn

SpecReport == InitReport /\ [][NextReport]_vars

(***************************************************************************)
(* The report seen from outside _parse_lines                               *)
(***************************************************************************)
\* s.split(sep) for a one-character sep
RECURSIVE Split(_, _)
Split(s, sep) ==
    LET at == {k \in 1..Len(s) : s[k] = sep}
    IN  IF at = {} THEN <<s>>
        ELSE <<Slice(s, 1, Min(at) - 1)>> \o Split(Slice(s, Min(at) + 1, Len(s)), sep)

\* the lines of the text _parse_lines returned
OutputLines == Split(response.text, "\n")

\* the number of tabs in an output line
TabCount(l) == Cardinality({k \in 1..Len(l) : l[k] = "\t"})

\* an output line that opens a block: "[name]", without a tab
IsBlockHeader(l) == Len(l) >= 2 /\ l[1] = "[" /\ l[Len(l)] = "]" /\ TabCount(l) = 0

\* the service names of the blocks of the report, in order
BlockNames ==
    LET heads == SelectSeq(OutputLines, IsBlockHeader)
    IN  [k \in 1..Len(heads) |-> Slice(heads[k], 2, Len(heads[k]) - 1)]

\* line k of the statement is a Service Header line for _parse_lines
ReportServiceLine(k) == report_branch_of[lines[k], FALSE] = "service"

\* the last Service Header line before line k, or 0
ReportLastServiceLine(k) ==
    LET S == {j \in 1..(k - 1) : ReportServiceLine(j)}
    IN  IF S = {} THEN 0 ELSE Max(S)

\* line k is an item line: it follows a Service Header, no header classifier
\* takes it, it holds "USD" and its description and amount are not empty
ReportItemLine(k) ==
    /\ ReportLastServiceLine(k) > 0
    /\ report_branch_of[lines[k], TRUE] = "usage"
    /\ Truthy(report_item_of[lines[k]].desc)
    /\ Truthy(report_item_of[lines[k]].amount)

\* line k is printed in the block of its service: a Region Header line, a
\* sub-service header line holding "USD", or an item line
ReportEntryLine(k) ==
    /\ ReportLastServiceLine(k) > 0
    /\ \/ report_branch_of[lines[k], TRUE] = "region"
       \/ /\ report_branch_of[lines[k], TRUE] = "sub_service"
          /\ Contains(TextAt(k), USD)
       \/ ReportItemLine(k)

\* the Service Header line k has an entry line before the next Service
\* Header line or the end of the statement
HasEntries(k) ==
    \E j \in (k + 1)..Len(lines) : ReportEntryLine(j) /\ ReportLastServiceLine(j) = k

\* the names of the Service Header lines among the first k lines, in order
RECURSIVE HeaderNames(_)
HeaderNames(k) ==
    IF k = 0 THEN <<>>
    ELSE IF ReportServiceLine(k)
         THEN Append(HeaderNames(k - 1), report_service_of[lines[k]][1])
         ELSE HeaderNames(k - 1)

\* the names of the Service Header lines with entries among the first k
\* lines, in order
RECURSIVE HeaderNamesWithEntries(_)
HeaderNamesWithEntries(k) ==
    IF k = 0 THEN <<>>
    ELSE IF ReportServiceLine(k) /\ HasEntries(k)
         THEN Append(HeaderNamesWithEntries(k - 1), report_service_of[lines[k]][1])
         ELSE HeaderNamesWithEntries(k - 1)

(***************************************************************************)
(* C12                                                                     *)
(***************************************************************************)
\* C12 as stated: the report has one block for every Service Header line of
\* the statement, in the order of the lines, also for a Service Header that
\* no region, sub-service or usage line follows.
C12_OneBlockPerServiceHeader ==
    pc = "report_returned" => BlockNames = HeaderNames(Len(lines))

\* C12 amended: the report has one block for every Service Header line that
\* is followed, before the next Service Header line or the end of the
\* statement, by a line its block prints (a Region Header, a sub-service
\* header holding "USD" or an accepted usage line), in the order of the
\* lines; a Service Header with no such line has no block.
C12_OneBlockPerServiceWithEntries ==
    pc = "report_returned" => BlockNames = HeaderNamesWithEntries(Len(lines))

\* C12 witness: of three Service Header lines only the second is followed by
\* an entry line, and the report has the one block of the second.
C12_Witness ==
    /\ pc = "report_returned"
    /\ Len(lines) = 4
    /\ ReportServiceLine(1)
    /\ ReportServiceLine(2)
    /\ ReportItemLine(3)
    /\ ReportServiceLine(4)
    /\ BlockNames = <<report_service_of[lines[2]][1]>>
    /\ report_service_of[lines[1]][1] # report_service_of[lines[2]][1]

(***************************************************************************)
(* C13                                                                     *)
(***************************************************************************)
\* C13 as stated: a current sub-service implies a current region, and a
\* current region implies a current service.
C13_SubServiceInsideRegion ==
    /\ Truthy(current_sub_service) => Truthy(current_region)
    /\ Truthy(current_region) => Truthy(current_service)

\* C13 amended: a current region implies a current service, and a current
\* sub-service implies a current service, not a current region: every
\* sub-service header line holding "USD" that is read while a service is
\* current sets the current sub-service, with a region current or not.
C13_ContextInsideService ==
    /\ Truthy(current_region) => Truthy(current_service)
    /\ Truthy(current_sub_service) => Truthy(current_service)
    /\ (/\ pc = "loop"
        /\ i > 0
        /\ LastServiceLine(i) > 0
        /\ branch_of[lines[i], TRUE] = "sub_service"
        /\ Contains(TextAt(i), USD)) => current_sub_service = sub_service_of[lines[i]]

\* C13 witness: a sub-service header line has been read right after a
\* Service Header line; a sub-service is current and no region is.
C13_Witness ==
    /\ pc = "loop"
    /\ i = 2
    /\ IsServiceLine(1)
    /\ branch_of[lines[2], TRUE] = "sub_service"
    /\ Truthy(current_service)
    /\ Truthy(current_sub_service)
    /\ current_region = None

(***************************************************************************)
(* C14                                                                     *)
(***************************************************************************)
\* the longest statement over ELBLines, in lines
MaxELBLines == 4

\* the Elastic Load Balancing service, a region, a line that starts with
\* "Elastic Load Balancing -", a line that holds it further in, a usage
\* line, a blank line and the boilerplate line
ELBLines == {3, 7, 8, 17, 18, 19, 20}

InitELB == Start(Statements(ELBLines, MaxELBLines))

SpecELB == InitELB /\ [][Next]_vars

\* C14: while a region is current, a line that holds "Elastic Load
\* Balancing -" and "USD" sets the current sub-service to its text before
\* the last "USD" and leaves the current service and the current region as
\* they are.
C14_ELBLineIsSubServiceHeader ==
    [][(/\ AtLine
        /\ Truthy(current_region)
        /\ Contains(line, <<"E", "l", "a", "s", "t", "i", "c", " ", "L", "o", "a", "d", " ", "B", "a", "l", "a", "n", "c", "i", "n", "g", " ", "-">>)
        /\ Contains(line, USD)) =>
            /\ current_sub_service' = Strip(RSplit1(line, USD)[1])
            /\ UNCHANGED <<current_service, current_region>>
      ]_vars

(***************************************************************************)
(* C15                                                                     *)
(***************************************************************************)
\* C15: in _parse_lines_to_csv_data and in _parse_lines alike, a line that
\* holds "Charges by service" only moves the parser to the next line:
\* service, service total, region, sub-service, the records, the entries of
\* the service in progress and the blocks put out stay as they are, whatever
\* else the line holds.
C15_BoilerplateLineChangesNothing ==
    [][(/\ pc \in {"loop", "report"}
        /\ i < Len(lines)
        /\ Contains(line, ChargesByService)) =>
            /\ i' = i + 1
            /\ UNCHANGED <<pc, current_service, current_service_total,
                           current_region, current_sub_service, csv_data,
                           service_lines, result>>
      ]_vars

\* C15 witness: after a Service Header came a boilerplate line that starts
\* with the name of another service and holds "USD", then an accepted usage
\* line; the record and the one block of the report carry the service of
\* the first line.
C15_Witness ==
    /\ pc = "report_returned"
    /\ Len(lines) = 3
    /\ IsServiceLine(1)
    /\ Contains(TextAt(2), ChargesByService)
    /\ Truthy(service_header_of[lines[2]][1])
    /\ service_header_of[lines[2]][1] # service_header_of[lines[1]][1]
    /\ AcceptedUsageLine(3)
    /\ Len(csv_data) = 1
    /\ csv_data[1].Service = service_header_of[lines[1]][1]
    /\ BlockNames = <<service_header_of[lines[1]][1]>>

(***************************************************************************)
(* C16                                                                     *)
(***************************************************************************)
\* the longest statement over QtyLines, in lines
MaxQtyLines == 3

\* a service, a region, a sub-service with its total, a blank line, the
\* boilerplate line, and usage lines whose left part ends with a number, a
\* blank and a unit (5, 11, 20, 24), with a number and a unit without a
\* blank (21), with a bare number (22), with an underscore in the unit
\* (25), with no number (12), and one that is nothing but number and unit
\* (6)
QtyLines == {1, 3, 4, 5, 6, 7, 8, 11, 12, 20, 21, 22, 24, 25}

InitQty == Start(Statements(QtyLines, MaxQtyLines))

SpecQty == InitQty /\ [][Next]_vars

\* s is a number with optional commas and decimal: digits and commas, then
\* at most one point followed by digits
IsNumber(s) ==
    /\ s # <<>>
    /\ s[1] \in DigitComma
    /\ LET a == RunEnd(s, 1, DigitComma)
       IN  \/ a = Len(s)
           \/ /\ s[a + 1] = "."
              /\ \A j \in (a + 2)..Len(s) : s[j] \in Digits

\* the characters of a unit word as the specification lists them: letters,
\* digits, hyphens and slashes
StatedUnitChars == Letters \cup Digits \cup {"-", "/"}

\* s is a unit word over the characters of class
IsUnitWord(s, class) ==
    /\ s # <<>>
    /\ \A j \in 1..Len(s) : s[j] \in class

\* the shape of a token: at least min blanks between number and unit word,
\* and the characters class in the unit word
StatedShape == [min |-> 1, class |-> StatedUnitChars]

MatchedShape == [min |-> 0, class |-> UnitChars]

\* t is a number, at least min blanks and a unit word
IsToken(t, shape) ==
    \E a \in 1..Len(t), b \in 1..Len(t) :
        /\ a + shape.min <= b
        /\ IsNumber(Slice(t, 1, a))
        /\ \A j \in (a + 1)..b : t[j] \in Whitespace
        /\ IsUnitWord(Slice(t, b + 1, Len(t)), shape.class)

\* where the longest token at the end of s starts, or 0 when s ends with
\* no token
TokenStart(s, shape) ==
    LET K == {k \in 1..Len(s) : IsToken(Slice(s, k, Len(s)), shape)}
    IN  IF K = {} THEN 0 ELSE Min(K)

\* the trimmed text left of the last "USD" of the line the parser is at
LeftPart == Strip(RSplit1(line, USD)[1])

\* quantity and unit of the record are a number and a unit word that, with
\* at least min blanks between them, make up the text of s from k on
SplitsToken(rec, s, k, shape) ==
    /\ IsNumber(rec.Usage_Quantity)
    /\ IsUnitWord(rec.Usage_Unit, shape.class)
    /\ \E n \in shape.min..Len(s) :
          /\ Len(rec.Usage_Quantity) + n + Len(rec.Usage_Unit) = Len(s) - k + 1
          /\ Slice(s, k, k + Len(rec.Usage_Quantity) - 1) = rec.Usage_Quantity
          /\ \A j \in (k + Len(rec.Usage_Quantity))..(k + Len(rec.Usage_Quantity) + n - 1) :
                s[j] \in Whitespace
          /\ Slice(s, k + Len(rec.Usage_Quantity) + n, Len(s)) = rec.Usage_Unit

\* the record of the line agrees with the token rule where a token has a
\* number, at least min blanks and a unit word
FollowsTokenRule(rec, shape) ==
    LET k == TokenStart(LeftPart, shape)
    IN  IF k = 0
        THEN /\ rec.Usage_Quantity = <<>>
             /\ rec.Usage_Unit = <<>>
             /\ rec.Description = LeftPart
        ELSE /\ SplitsToken(rec, LeftPart, k, shape)
             /\ rec.Description = Strip(Slice(LeftPart, 1, k - 1))

\* C16 as stated: the record of an accepted usage line has a quantity and a
\* unit only when the left part ends with a number, whitespace and a unit
\* word; its Description is then the text before that token, and otherwise
\* quantity and unit are empty and the Description is the whole left part.
C16_QuantityNeedsBlankBeforeUnit ==
    [][Emits => FollowsTokenRule(Emitted, StatedShape)]_vars

\* C16 amended: the whitespace between number and unit word may be absent,
\* and the unit word may hold underscores besides letters, digits, hyphens
\* and slashes.  The record of an accepted usage line has a quantity and a unit exactly
\* when the left part ends with a number directly or after whitespace
\* followed by a unit word (so the last digit of a bare number is taken as
\* the unit); the Description is then the trimmed text before the longest
\* such token, and otherwise quantity and unit are empty and the
\* Description is the whole left part.
C16_QuantityAndUnitFromTrailingToken ==
    [][Emits => FollowsTokenRule(Emitted, MatchedShape)]_vars

\* C16 witness: the records of "Storage 5GB" and of "Credit" have been
\* emitted, the first with the quantity 5 and the unit GB, the second with
\* neither.
C16_Witness ==
    /\ Len(csv_data) = 2
    /\ \E a, c \in 1..2 :
          /\ csv_data[a].Description = <<"S", "t", "o", "r", "a", "g", "e">>
          /\ csv_data[a].Usage_Quantity = <<"5">>
          /\ csv_data[a].Usage_Unit = <<"G", "B">>
          /\ csv_data[c].Description = <<"C", "r", "e", "d", "i", "t">>
          /\ csv_data[c].Usage_Quantity = <<>>
          /\ csv_data[c].Usage_Unit = <<>>

(***************************************************************************)
(* C17                                                                     *)
(***************************************************************************)
\* s.find(sub), 1-based; 0 when sub does not occur
Find(s, sub) ==
    LET at == {k \in 1..(Len(s) - Len(sub) + 1) : OccursAt(s, sub, k)}
    IN  IF at = {} THEN 0 ELSE Min(at)

\* the text of l from its first "USD" to its end, trimmed
FromUSDToEnd(l) == Strip(Slice(l, Find(l, USD), Len(l)))

\* "USD" and, right after it, the trimmed text that follows the last "USD"
\* of l
USDThenTrimmedRest(l) == USD \o Strip(Slice(l, RFind(l, USD) + Len(USD), Len(l)))

\* the total lines of the blocks of the report, in order: the second line
\* after each line that opens a block
RECURSIVE TotalLinesFrom(_)
TotalLinesFrom(j) ==
    IF j > Len(OutputLines) THEN <<>>
    ELSE IF IsBlockHeader(OutputLines[j])
         THEN <<OutputLines[j + 2]>> \o TotalLinesFrom(j + 1)
         ELSE TotalLinesFrom(j + 1)

\* the Service Header lines with entries among the first k lines, in order
RECURSIVE HeadersWithEntries(_)
HeadersWithEntries(k) ==
    IF k = 0 THEN <<>>
    ELSE IF ReportServiceLine(k) /\ HasEntries(k)
         THEN Append(HeadersWithEntries(k - 1), k)
         ELSE HeadersWithEntries(k - 1)

\* C17 as stated: the total _parse_lines keeps for a Service Header line is
\* the text of the line from "USD" to its end, trimmed, and the total line
\* of the service's block is the label, five tabs and that text.
C17_TotalIsLineFromUSD ==
    /\ (pc = "report" /\ i > 0 /\ ReportServiceLine(i)) =>
          /\ StartsWith(TextAt(i), current_service)
          /\ current_service_total = FromUSDToEnd(TextAt(i))
    /\ pc = "report_returned" =>
          LET heads == HeadersWithEntries(Len(lines))
          IN  TotalLinesFrom(1) =
                 [k \in 1..Len(heads) |->
                     TotalLabel \o Tabs5 \o FromUSDToEnd(TextAt(heads[k]))]

\* C17 amended: the total _parse_lines keeps for a Service Header line is
\* "USD" followed at once by the trimmed text after the last "USD" of the
\* line ("USD12.00" for "Lambda USD 12.00"), and the total line of the
\* service's block is the label, five tabs and that string unchanged.
C17_TotalIsUSDThenTrimmedRest ==
    /\ (pc = "report" /\ i > 0 /\ ReportServiceLine(i)) =>
          /\ StartsWith(TextAt(i), current_service)
          /\ current_service_total = USDThenTrimmedRest(TextAt(i))
    /\ pc = "report_returned" =>
          LET heads == HeadersWithEntries(Len(lines))
          IN  TotalLinesFrom(1) =
                 [k \in 1..Len(heads) |->
                     TotalLabel \o Tabs5 \o USDThenTrimmedRest(TextAt(heads[k]))]

\* C17 witness: the report of a statement whose Service Header line holds
\* "USD" twice has one block, and its total line ends with "USD0.10".
C17_Witness ==
    /\ pc = "report_returned"
    /\ Len(lines) = 2
    /\ TextAt(1) = <<"T", "a", "x", " ", "U", "S", "D", " ", "1", ".", "0", "0", " ", "U", "S", "D", " ", "0", ".", "1", "0">>
    /\ ReportItemLine(2)
    /\ BlockNames = << <<"T", "a", "x">> >>
    /\ TotalLinesFrom(1) = <<TotalLabel \o Tabs5 \o <<"U", "S", "D", "0", ".", "1", "0">> >>

(***************************************************************************)
(* C18                                                                     *)
(***************************************************************************)
\* where the first tab of an output line is
FirstTab(l) == Min({k \in 1..Len(l) : l[k] = "\t"})

\* The item lines of the report from output line j on, in order, each as
\* <<service of its block, description>>; block is the service of the block
\* line j lies in.  An item line is the one kind of line with three tabs.
RECURSIVE ItemsFrom(_, _)
ItemsFrom(j, block) ==
    IF j > Len(OutputLines) THEN <<>>
    ELSE LET l == OutputLines[j]
         IN  IF IsBlockHeader(l) THEN ItemsFrom(j + 1, Slice(l, 2, Len(l) - 1))
             ELSE IF TabCount(l) = 3
                  THEN << <<block, Slice(l, 1, FirstTab(l) - 1)>> >> \o ItemsFrom(j + 1, block)
                  ELSE ItemsFrom(j + 1, block)

\* C18: the item lines of the report of a statement, in order, are the
\* records _parse_lines_to_csv_data gives for the same statement, in order:
\* as many, each with the same description under the same service.
C18_ReportItemsAreFlatRecords ==
    pc = "report_returned" =>
        ItemsFrom(1, None) =
            [k \in 1..Len(csv_data) |-> <<csv_data[k].Service, csv_data[k].Description>>]

\* C18 witness: a statement of two services with an accepted usage line
\* each has been parsed both ways; there are two records, of different
\* services, and two item lines.
C18_Witness ==
    /\ pc = "report_returned"
    /\ Len(csv_data) = 2
    /\ csv_data[1].Service # csv_data[2].Service
    /\ Len(ItemsFrom(1, None)) = 2
    /\ Len(BlockNames) = 2

(***************************************************************************)
(* preview_data (src/app.py), on what extract_to_csv_data gave             *)
(***************************************************************************)
\* jsonify({'error': ...}), 400 of line 148
PreviewExtractFailed == [status |-> 400, error |-> "cannot extract data from the PDF"]

\* jsonify({'error': ...}), 500 of line 167
PreviewError == [status |-> 500, error |-> "error while processing"]

RECURSIVE Pow10(_)
Pow10(n) == IF n = 0 THEN 1 ELSE 10 * Pow10(n - 1)

\* a + b of two amounts
Plus(a, b) ==
    LET e == Max({a.exp, b.exp})
    IN  Normal(a.mant * Pow10(e - a.exp) + b.mant * Pow10(e - b.exp), e)

\* lines 151-157: the state of the summary loop after the first n rows;
\* row[key] of a key the row does not have raises KeyError and ends the loop
RECURSIVE service_summary(_, _)
service_summary(rows, n) ==
    IF n = 0 THEN [raised |-> FALSE, summary |-> <<>>]
    ELSE LET before == service_summary(rows, n - 1)
             row == rows[n]
         IN  IF before.raised THEN before
             ELSE IF "Service" \notin DOMAIN row THEN [raised |-> TRUE, summary |-> <<>>]
             ELSE LET service == row["Service"]
                      created == IF service \in DOMAIN before.summary
                                 THEN before.summary
                                 ELSE [s \in DOMAIN before.summary \cup {service} |->
                                          IF s = service THEN [count |-> 0, total |-> Zero]
                                          ELSE before.summary[s]]
                      counted == [created EXCEPT ![service].count = @ + 1]
                  IN  IF "Amount_USD" \notin DOMAIN row
                      THEN [raised |-> TRUE, summary |-> counted]
                      ELSE [raised |-> FALSE,
                            summary |-> [counted EXCEPT ![service].total =
                                                Plus(@, row["Amount_USD"])]]

\* lines 147-167: preview_data's answer to the rows extract_to_csv_data returned
preview_answer(rows) ==
    IF rows = <<>> THEN PreviewExtractFailed
    ELSE LET looped == service_summary(rows, Len(rows))
         IN  IF looped.raised THEN PreviewError
             ELSE [status |-> 200,
                   success |-> TRUE,
                   total_rows |-> Len(rows),
                   service_summary |-> looped.summary,
                   preview |-> Slice(rows, 1, Min({20, Len(rows)}))]

\* preview_data, lines 142-167
preview_data ==
    /\ pc \in {"returned", "raised"}
    /\ response' = IF pc = "raised" THEN PreviewError ELSE preview_answer(csv_data)
    /\ pc' = "previewed"
    /\ UNCHANGED <<lines, i, current_service, current_service_total,
                   current_region, current_sub_service, csv_data>>
    /\ UNCHANGED other_vars

NextPreview ==
    \/ SkipBlank
    \/ SkipBoilerplate
    \/ ServiceHeader
    \/ RegionHeader
    \/ SubServiceHeader
    \/ UsageLine
    \/ NoMatch
    \/ Return
    \/ preview_data

SpecPreview == Init /\ [][NextPreview]_vars

(***************************************************************************)
(* C19                                                                     *)
(***************************************************************************)
\* the records of one service, by their place in csv_data
RowsOf(service) == {k \in 1..Len(csv_data) : csv_data[k].Service = service}

\* the sum of the amounts of the records at the places in S
RECURSIVE SumOfAmounts(_)
SumOfAmounts(S) ==
    IF S = {} THEN Zero
    ELSE LET k == Min(S) IN Plus(csv_data[k].Amount, SumOfAmounts(S \ {k}))

\* C19: when the parse gave at least one record, /preview answers with a
\* success result whose total_rows is the number of records and whose
\* service_summary holds, for each service, the number of its records and
\* the sum of their amounts; an error is answered only when there is no
\* record.
C19_PreviewSummarisesRecords ==
    (pc = "previewed" /\ csv_data # <<>>) =>
        /\ response.status = 200
        /\ response.success
        /\ response.total_rows = Len(csv_data)
        /\ DOMAIN response.service_summary = {csv_data[k].Service : k \in 1..Len(csv_data)}
        /\ \A s \in DOMAIN response.service_summary :
              /\ response.service_summary[s].count = Cardinality(RowsOf(s))
              /\ response.service_summary[s].total = SumOfAmounts(RowsOf(s))

(***************************************************************************)
(* AWSBillingExtractor (version 1): the patterns of its four matchers      *)
(***************************************************************************)
\* AWSBillingExtractor.SERVICE_NAMES
SERVICE_NAMES == <<
    \* Elastic Container Service
    <<"E", "l", "a", "s", "t", "i", "c", " ", "C", "o", "n", "t", "a", "i", "n", "e", "r", " ", "S", "e", "r", "v", "i", "c", "e">>,
    \* Simple Storage Service
    <<"S", "i", "m", "p", "l", "e", " ", "S", "t", "o", "r", "a", "g", "e", " ", "S", "e", "r", "v", "i", "c", "e">>,
    \* Elastic Compute Cloud
    <<"E", "l", "a", "s", "t", "i", "c", " ", "C", "o", "m", "p", "u", "t", "e", " ", "C", "l", "o", "u", "d">>,
    \* Relational Database Service
    <<"R", "e", "l", "a", "t", "i", "o", "n", "a", "l", " ", "D", "a", "t", "a", "b", "a", "s", "e", " ", "S", "e", "r", "v", "i", "c", "e">>,
    \* Glue
    <<"G", "l", "u", "e">>,
    \* DynamoDB
    <<"D", "y", "n", "a", "m", "o", "D", "B">>,
    \* Virtual Private Cloud
    <<"V", "i", "r", "t", "u", "a", "l", " ", "P", "r", "i", "v", "a", "t", "e", " ", "C", "l", "o", "u", "d">>,
    \* Data Transfer
    <<"D", "a", "t", "a", " ", "T", "r", "a", "n", "s", "f", "e", "r">>,
    \* Athena
    <<"A", "t", "h", "e", "n", "a">>,
    \* Lambda
    <<"L", "a", "m", "b", "d", "a">>,
    \* Elastic Load Balancing
    <<"E", "l", "a", "s", "t", "i", "c", " ", "L", "o", "a", "d", " ", "B", "a", "l", "a", "n", "c", "i", "n", "g">>,
    \* Kinesis
    <<"K", "i", "n", "e", "s", "i", "s">>,
    \* CloudWatch
    <<"C", "l", "o", "u", "d", "W", "a", "t", "c", "h">>,
    \* EC2 Container Registry
    <<"E", "C", "2", " ", "C", "o", "n", "t", "a", "i", "n", "e", "r", " ", "R", "e", "g", "i", "s", "t", "r", "y">>,
    \* Key Management Service
    <<"K", "e", "y", " ", "M", "a", "n", "a", "g", "e", "m", "e", "n", "t", " ", "S", "e", "r", "v", "i", "c", "e">>,
    \* Elastic File System
    <<"E", "l", "a", "s", "t", "i", "c", " ", "F", "i", "l", "e", " ", "S", "y", "s", "t", "e", "m">>,
    \* S3 Glacier Deep Archive
    <<"S", "3", " ", "G", "l", "a", "c", "i", "e", "r", " ", "D", "e", "e", "p", " ", "A", "r", "c", "h", "i", "v", "e">>,
    \* Secrets Manager
    <<"S", "e", "c", "r", "e", "t", "s", " ", "M", "a", "n", "a", "g", "e", "r">>,
    \* Route 53
    <<"R", "o", "u", "t", "e", " ", "5", "3">>,
    \* Cost Explorer
    <<"C", "o", "s", "t", " ", "E", "x", "p", "l", "o", "r", "e", "r">>,
    \* Simple Email Service
    <<"S", "i", "m", "p", "l", "e", " ", "E", "m", "a", "i", "l", " ", "S", "e", "r", "v", "i", "c", "e">>,
    \* Simple Queue Service
    <<"S", "i", "m", "p", "l", "e", " ", "Q", "u", "e", "u", "e", " ", "S", "e", "r", "v", "i", "c", "e">>,
    \* Certificate Manager
    <<"C", "e", "r", "t", "i", "f", "i", "c", "a", "t", "e", " ", "M", "a", "n", "a", "g", "e", "r">>,
    \* Simple Notification Service
    <<"S", "i", "m", "p", "l", "e", " ", "N", "o", "t", "i", "f", "i", "c", "a", "t", "i", "o", "n", " ", "S", "e", "r", "v", "i", "c", "e">>,
    \* CloudFront
    <<"C", "l", "o", "u", "d", "F", "r", "o", "n", "t">>,
    \* CodeBuild
    <<"C", "o", "d", "e", "B", "u", "i", "l", "d">>,
    \* CodePipeline
    <<"C", "o", "d", "e", "P", "i", "p", "e", "l", "i", "n", "e">>,
    \* Step Functions
    <<"S", "t", "e", "p", " ", "F", "u", "n", "c", "t", "i", "o", "n", "s">>,
    \* API Gateway
    <<"A", "P", "I", " ", "G", "a", "t", "e", "w", "a", "y">>,
    \* Cognito
    <<"C", "o", "g", "n", "i", "t", "o">>,
    \* EventBridge
    <<"E", "v", "e", "n", "t", "B", "r", "i", "d", "g", "e">>,
    \* Backup
    <<"B", "a", "c", "k", "u", "p">>,
    \* Config
    <<"C", "o", "n", "f", "i", "g">>,
    \* GuardDuty
    <<"G", "u", "a", "r", "d", "D", "u", "t", "y">>,
    \* Inspector
    <<"I", "n", "s", "p", "e", "c", "t", "o", "r">>,
    \* Security Hub
    <<"S", "e", "c", "u", "r", "i", "t", "y", " ", "H", "u", "b">>,
    \* WAF
    <<"W", "A", "F">>,
    \* Shield
    <<"S", "h", "i", "e", "l", "d">>,
    \* Savings Plans
    <<"S", "a", "v", "i", "n", "g", "s", " ", "P", "l", "a", "n", "s">>,
    \* Support
    <<"S", "u", "p", "p", "o", "r", "t">>
>>

\* AWSBillingExtractor.REGION_PATTERNS
REGION_PATTERNS == <<
    \* Asia Pacific (Seoul)
    <<"A", "s", "i", "a", " ", "P", "a", "c", "i", "f", "i", "c", " ", "(", "S", "e", "o", "u", "l", ")">>,
    \* Asia Pacific (Tokyo)
    <<"A", "s", "i", "a", " ", "P", "a", "c", "i", "f", "i", "c", " ", "(", "T", "o", "k", "y", "o", ")">>,
    \* Asia Pacific (Singapore)
    <<"A", "s", "i", "a", " ", "P", "a", "c", "i", "f", "i", "c", " ", "(", "S", "i", "n", "g", "a", "p", "o", "r", "e", ")">>,
    \* Asia Pacific (Sydney)
    <<"A", "s", "i", "a", " ", "P", "a", "c", "i", "f", "i", "c", " ", "(", "S", "y", "d", "n", "e", "y", ")">>,
    \* Asia Pacific (Mumbai)
    <<"A", "s", "i", "a", " ", "P", "a", "c", "i", "f", "i", "c", " ", "(", "M", "u", "m", "b", "a", "i", ")">>,
    \* Asia Pacific (Hong Kong)
    <<"A", "s", "i", "a", " ", "P", "a", "c", "i", "f", "i", "c", " ", "(", "H", "o", "n", "g", " ", "K", "o", "n", "g", ")">>,
    \* Asia Pacific (Osaka)
    <<"A", "s", "i", "a", " ", "P", "a", "c", "i", "f", "i", "c", " ", "(", "O", "s", "a", "k", "a", ")">>,
    \* Asia Pacific (Jakarta)
    <<"A", "s", "i", "a", " ", "P", "a", "c", "i", "f", "i", "c", " ", "(", "J", "a", "k", "a", "r", "t", "a", ")">>,
    \* US East (N. Virginia)
    <<"U", "S", " ", "E", "a", "s", "t", " ", "(", "N", ".", " ", "V", "i", "r", "g", "i", "n", "i", "a", ")">>,
    \* US East (Ohio)
    <<"U", "S", " ", "E", "a", "s", "t", " ", "(", "O", "h", "i", "o", ")">>,
    \* US West (Oregon)
    <<"U", "S", " ", "W", "e", "s", "t", " ", "(", "O", "r", "e", "g", "o", "n", ")">>,
    \* US West (N. California)
    <<"U", "S", " ", "W", "e", "s", "t", " ", "(", "N", ".", " ", "C", "a", "l", "i", "f", "o", "r", "n", "i", "a", ")">>,
    \* EU (Ireland)
    <<"E", "U", " ", "(", "I", "r", "e", "l", "a", "n", "d", ")">>,
    \* EU (Frankfurt)
    <<"E", "U", " ", "(", "F", "r", "a", "n", "k", "f", "u", "r", "t", ")">>,
    \* EU (London)
    <<"E", "U", " ", "(", "L", "o", "n", "d", "o", "n", ")">>,
    \* EU (Paris)
    <<"E", "U", " ", "(", "P", "a", "r", "i", "s", ")">>,
    \* EU (Stockholm)
    <<"E", "U", " ", "(", "S", "t", "o", "c", "k", "h", "o", "l", "m", ")">>,
    \* EU (Milan)
    <<"E", "U", " ", "(", "M", "i", "l", "a", "n", ")">>,
    \* South America (Sao Paulo)
    <<"S", "o", "u", "t", "h", " ", "A", "m", "e", "r", "i", "c", "a", " ", "(", "S", "a", "o", " ", "P", "a", "u", "l", "o", ")">>,
    \* Canada (Central)
    <<"C", "a", "n", "a", "d", "a", " ", "(", "C", "e", "n", "t", "r", "a", "l", ")">>,
    \* Middle East (Bahrain)
    <<"M", "i", "d", "d", "l", "e", " ", "E", "a", "s", "t", " ", "(", "B", "a", "h", "r", "a", "i", "n", ")">>,
    \* Africa (Cape Town)
    <<"A", "f", "r", "i", "c", "a", " ", "(", "C", "a", "p", "e", " ", "T", "o", "w", "n", ")">>,
    \* Any
    <<"A", "n", "y">>,
    \* Global
    <<"G", "l", "o", "b", "a", "l">>
>>

UpperCase == <<"A", "B", "C", "D", "E", "F", "G", "H", "I", "J", "K", "L", "M", "N", "O", "P", "Q", "R", "S", "T", "U", "V", "W", "X", "Y", "Z">>

LowerCase == <<"a", "b", "c", "d", "e", "f", "g", "h", "i", "j", "k", "l", "m", "n", "o", "p", "q", "r", "s", "t", "u", "v", "w", "x", "y", "z">>

\* the character re.IGNORECASE compares c as
Folded(c) ==
    IF \E k \in 1..26 : UpperCase[k] = c
    THEN LowerCase[CHOOSE k \in 1..26 : UpperCase[k] = c]
    ELSE c

\* re.match(re.escape(prefix), s, re.IGNORECASE)
StartsWithFolded(s, prefix) ==
    /\ Len(prefix) <= Len(s)
    /\ \A j \in 1..Len(prefix) : Folded(s[j]) = Folded(prefix[j])

\* \w
WordChars == Digits \cup Letters \cup {"_"}

\* where the text that USD\s*[\d,]+\.?\d* matches from position p on ends,
\* or 0 when it does not match there; fold is whether case is ignored
AmountEnd(s, p, fold) ==
    IF ~(IF fold THEN StartsWithFolded(Slice(s, p, Len(s)), USD)
                 ELSE OccursAt(s, USD, p))
    THEN 0
    ELSE LET n == RunEnd(s, p + 3, Whitespace) + 1
         IN  IF n > Len(s) \/ s[n] \notin DigitComma THEN 0
             ELSE LET a == RunEnd(s, n, DigitComma)
                  IN  IF a < Len(s) /\ s[a + 1] = "."
                      THEN RunEnd(s, a + 2, Digits)
                      ELSE a

\* where the group of \s+(USD\s*[\d,]+\.?\d*)$ starts in s, or 0 when s does
\* not end so.  The text after that "USD" holds no letter, so it is the last
\* "USD" of s.
AmountStart(s) ==
    LET p == RFind(s, USD)
    IN  IF p >= 2 /\ s[p - 1] \in Whitespace /\ AmountEnd(s, p, FALSE) = Len(s)
        THEN p ELSE 0

NoHeaderMatch == [matched |-> FALSE, name |-> <<>>, total |-> <<>>]

\* _match_service_header(line) for one service_name, lines 223-230
match_one_service(l, service_name) ==
    LET p == RunEnd(l, Len(service_name) + 1, Whitespace) + 1
        e == AmountEnd(l, p, TRUE)
    IN  IF StartsWithFolded(l, service_name) /\ p > Len(service_name) + 1 /\ e > 0
        THEN [matched |-> TRUE, name |-> service_name, total |-> Slice(l, p, e)]
        ELSE IF l = service_name
             THEN [matched |-> TRUE, name |-> service_name, total |-> <<>>]
             ELSE NoHeaderMatch

\* _match_service_header(line)
match_service_header(l) ==
    LET hits == {k \in 1..Len(SERVICE_NAMES) : match_one_service(l, SERVICE_NAMES[k]).matched}
    IN  IF hits = {} THEN NoHeaderMatch
        ELSE match_one_service(l, SERVICE_NAMES[Min(hits)])

\* _match_region_header(line)
match_region_header(l) ==
    LET hits == {k \in 1..Len(REGION_PATTERNS) : StartsWithFolded(l, REGION_PATTERNS[k])}
    IN  IF hits = {} THEN NoHeaderMatch
        ELSE LET region_name == REGION_PATTERNS[Min(hits)]
                 p == RunEnd(l, Len(region_name) + 1, Whitespace) + 1
                 e == AmountEnd(l, p, TRUE)
             IN  [matched |-> TRUE,
                  name |-> region_name,
                  total |-> IF e > 0 THEN Slice(l, p, e) ELSE <<>>]

\* every character of s from position a to position b is in class
AllIn(s, a, b, class) == \A j \in a..b : s[j] \in class

\* the text before the amount: what the first group and the \s+ after it
\* have to match
BeforeAmount(l) == Slice(l, 1, AmountStart(l) - 1)

\* pattern of line 249 on the text before the amount: "Amazon", blanks, one
\* of [\w\s], any of [\w\-\s], blanks
IsAmazonHead(h) ==
    /\ StartsWith(h, <<"A", "m", "a", "z", "o", "n">>)
    /\ Len(h) >= 9
    /\ h[7] \in Whitespace
    /\ h[8] \in WordChars \cup Whitespace
    /\ AllIn(h, 9, Len(h), WordChars \cup Whitespace \cup {"-"})

\* pattern2 of line 255: "AWS", blanks, some of [\w\s\-], blanks
IsAWSHead(h) ==
    /\ StartsWith(h, <<"A", "W", "S">>)
    /\ Len(h) >= 6
    /\ h[4] \in Whitespace
    /\ AllIn(h, 5, Len(h), WordChars \cup Whitespace \cup {"-"})

\* pattern3 of line 261: "EBS" or "Bandwidth", then blanks
IsShortHead(h) ==
    \E word \in {<<"E", "B", "S">>, <<"B", "a", "n", "d", "w", "i", "d", "t", "h">>} :
        /\ StartsWith(h, word)
        /\ Len(h) > Len(word)
        /\ AllIn(h, Len(word) + 1, Len(h), Whitespace)

\* pattern4 of line 267: some of [\w\s], " - ", some of [\w\s], blanks
IsDashedHead(h) ==
    \E q \in 2..(Len(h) - 4) :
        /\ OccursAt(h, <<" ", "-", " ">>, q)
        /\ AllIn(h, 1, q - 1, WordChars \cup Whitespace)
        /\ AllIn(h, q + 3, Len(h), WordChars \cup Whitespace)

\* _match_sub_service_header(line); re.match tries the four patterns on the
\* whole line, the amount being the last group of each
match_sub_service_header(l) ==
    LET p == AmountStart(l)
        h == BeforeAmount(l)
    IN  IF p = 0 THEN NoHeaderMatch
        ELSE IF IsAmazonHead(h) \/ IsAWSHead(h) \/ IsShortHead(h) \/ IsDashedHead(h)
             THEN [matched |-> TRUE, name |-> Strip(h), total |-> Slice(l, p, Len(l))]
             ELSE NoHeaderMatch

\* [\w\-]
V1UnitChars == WordChars \cup {"-"}

\* [\d,]+\.?\d*\s*[\w\-]+ matches the whole of t
IsQuantity(t) == IsToken(t, [min |-> 0, class |-> V1UnitChars])

\* The lazy first group of patterns 1 and 2 of _match_usage_line ends at the
\* first place e >= least from which \s+(quantity)\s+ matches the rest of the
\* text before the amount: a blank follows, the quantity starts at the next
\* character that is no blank and ends at the last one.  0 when there is none.
\* class is what the group may hold (for ".", every character of h).
LazyEnd(h, least, class) ==
    LET b == Len(Strip(h))
        fits == {e \in least..(b - 1) :
                    /\ h[e + 1] \in Whitespace
                    /\ AllIn(h, 1, e, class)
                    /\ LET a == RunEnd(h, e + 1, Whitespace) + 1
                       IN  a <= b /\ IsQuantity(Slice(h, a, b))}
    IN  IF fits = {} THEN 0 ELSE Min(fits)

\* the least length of a first group of pattern 1: "$", some of [\d.,],
\* blanks, "per", a blank, one more character; 0 when h does not start so
PerPrefix(h) ==
    IF h = <<>> \/ h[1] # "$" THEN 0
    ELSE LET a == RunEnd(h, 2, Digits \cup {".", ","})
             b == RunEnd(h, a + 1, Whitespace)
         IN  IF a >= 2 /\ b > a /\ OccursAt(h, <<"p", "e", "r">>, b + 1)
                /\ b + 4 <= Len(h) /\ h[b + 4] \in Whitespace
             THEN b + 5 ELSE 0

NoUsageMatch == [matched |-> FALSE, desc |-> <<>>, qty |-> <<>>, amt |-> <<>>]

\* _match_usage_line(line)
match_usage_line(l) ==
    LET p  == AmountStart(l)
        h  == BeforeAmount(l)
        b  == Len(Strip(h))
        amt == Slice(l, p, Len(l))
        e1 == IF PerPrefix(h) = 0 THEN 0 ELSE LazyEnd(h, PerPrefix(h), {h[j] : j \in 1..Len(h)})
        e2 == LazyEnd(h, 1, WordChars \cup Whitespace \cup {"-", "(", ")"})
        qty(e) == Slice(h, RunEnd(h, e + 1, Whitespace) + 1, b)
    IN  IF p = 0 THEN NoUsageMatch
        ELSE IF e1 > 0
             THEN [matched |-> TRUE, desc |-> Slice(h, 1, e1), qty |-> qty(e1), amt |-> amt]
        ELSE IF e2 > 0
             THEN [matched |-> TRUE, desc |-> Strip(Slice(h, 1, e2)), qty |-> qty(e2), amt |-> amt]
        ELSE IF b >= 1 /\ ~\E k \in 1..Len(REGION_PATTERNS) : Contains(l, REGION_PATTERNS[k])
             THEN [matched |-> TRUE, desc |-> Strip(h), qty |-> <<>>, amt |-> amt]
        ELSE NoUsageMatch

(***************************************************************************)
(* _parse_billing_text, one action per branch of the loop.  current_service*)
(* is the service_name of the ServiceSection being filled,                 *)
(* current_service_total its service_total and regions its regions dict,   *)
(* in insertion order; current_region is the region_name of the            *)
(* RegionSection being filled, which is always the one the dict holds      *)
(* under that name.                                                        *)
(***************************************************************************)
v1_service_of == [k \in DOMAIN Catalog |-> match_service_header(Text[k])]

v1_region_of == [k \in DOMAIN Catalog |-> match_region_header(Text[k])]

v1_sub_service_of == [k \in DOMAIN Catalog |-> match_sub_service_header(Text[k])]

v1_usage_of == [k \in DOMAIN Catalog |-> match_usage_line(Text[k])]

\* which branch of the loop of lines 150-211 takes catalog line k
billing_text_branch(k, has_service, has_region) ==
    IF v1_service_of[k].matched THEN "service"
    ELSE IF v1_region_of[k].matched /\ has_service THEN "region"
    ELSE IF v1_sub_service_of[k].matched /\ has_region THEN "sub_service"
    ELSE IF v1_usage_of[k].matched /\ has_region THEN "usage"
    ELSE "none"

\* UsageItem(description, usage_quantity, amount)
UsageItem(description, usage_quantity, amount) ==
    [description |-> description, usage_quantity |-> usage_quantity, amount |-> amount]

\* RegionSection(region_name, region_total), with no sub-service and no item
RegionSection(region_name, region_total) ==
    [region_name |-> region_name, region_total |-> region_total,
     sub_services |-> <<>>, items |-> <<>>]

\* where a dict, kept as the sequence of its values in insertion order,
\* holds key; 0 when it does not
KeyIndex(dict, field, key) ==
    LET at == {k \in 1..Len(dict) : dict[k][field] = key}
    IN  IF at = {} THEN 0 ELSE Min(at)

\* dict[key] = value: a key the dict holds keeps its place and gets the new
\* value, a new key goes to the end
SetItem(dict, field, key, value) ==
    IF KeyIndex(dict, field, key) = 0 THEN Append(dict, value)
    ELSE [dict EXCEPT ![KeyIndex(dict, field, key)] = value]

\* lines 313-316 and 320-323
item_line(item) ==
    IF item.usage_quantity # <<>>
    THEN item.description \o <<"\t">> \o item.usage_quantity \o <<"\t", "\t">> \o item.amount
    ELSE item.description \o <<"\t", "\t", "\t">> \o item.amount

RECURSIVE Flatten(_)
Flatten(seqs) == IF seqs = <<>> THEN <<>> ELSE seqs[1] \o Flatten(Tail(seqs))

\* lines 307-323 for one region
region_lines(region) ==
    <<region.region_name>>
    \o Flatten([k \in 1..Len(region.sub_services) |->
                   [j \in 1..Len(region.sub_services[k].items) |->
                       item_line(region.sub_services[k].items[j])]])
    \o [j \in 1..Len(region.items) |-> item_line(region.items[j])]

V1ColumnsLine ==
    <<"\t", "sa", "yong", "ryang", " ", "(", "sut", "ja", ")",
      "\t", "\t", "geum", "aek", " ", "(", "U", "S", "D", ")">>

\* the lines _format_service joins
format_service_lines(service_name, service_total, service_regions) ==
    <<<<"[">> \o service_name \o <<"]">>,
      V1ColumnsLine,
      TotalLabel \o <<"\t", "\t", "\t">> \o service_total>>
    \o Flatten([k \in 1..Len(service_regions) |-> region_lines(service_regions[k])])
    \o << <<>> >>

\* _format_service(service)
format_service(service_name, service_total, service_regions) ==
    Join(format_service_lines(service_name, service_total, service_regions), <<"\n">>)

\* lines 159-160 and 214-215
v1_flushed ==
    IF current_service # None
    THEN Append(result, format_service(current_service, current_service_total, regions))
    ELSE result

InBillingText(b) ==
    /\ pc = "v1"
    /\ i < Len(lines)
    /\ billing_text_branch(lines[i + 1], current_service # None, current_region # None) = b

\* lines 155-169
V1ServiceHeader ==
    /\ InBillingText("service")
    /\ result' = v1_flushed
    /\ current_service' = v1_service_of[lines[i + 1]].name
    /\ current_service_total' = v1_service_of[lines[i + 1]].total
    /\ regions' = <<>>
    /\ current_region' = None
    /\ current_sub_service' = None
    /\ i' = i + 1
    /\ UNCHANGED <<lines, pc, csv_data, response, files, file_no, results, service_lines>>

\* lines 173-182
V1RegionHeader ==
    /\ InBillingText("region")
    /\ LET m == v1_region_of[lines[i + 1]]
       IN  /\ current_region' = m.name
           /\ regions' = SetItem(regions, "region_name", m.name,
                                 RegionSection(m.name, m.total))
    /\ current_sub_service' = None
    /\ i' = i + 1
    /\ UNCHANGED <<lines, pc, current_service, current_service_total, result,
                   csv_data, response, files, file_no, results, service_lines>>

\* current_region of the source: its place in regions
region_no == KeyIndex(regions, "region_name", current_region)

\* lines 186-196
V1SubServiceHeader ==
    /\ InBillingText("sub_service")
    /\ LET m == v1_sub_service_of[lines[i + 1]]
           subs == regions[region_no].sub_services
           created == IF KeyIndex(subs, "name", m.name) = 0
                      THEN Append(subs, [name |-> m.name, items |-> <<>>])
                      ELSE subs
           n == KeyIndex(created, "name", m.name)
       IN  /\ current_sub_service' = m.name
           /\ regions' = [regions EXCEPT ![region_no].sub_services =
                             [created EXCEPT ![n].items =
                                 Append(@, UsageItem(m.name, <<>>, m.total))]]
    /\ i' = i + 1
    /\ UNCHANGED <<lines, pc, current_service, current_service_total, current_region,
                   result, csv_data, response, files, file_no, results, service_lines>>

\* lines 200-209
V1UsageLine ==
    /\ InBillingText("usage")
    /\ LET m == v1_usage_of[lines[i + 1]]
           item == UsageItem(m.desc, m.qty, m.amt)
           subs == regions[region_no].sub_services
           n == KeyIndex(subs, "name", current_sub_service)
       IN  regions' = IF Truthy(current_sub_service) /\ n > 0
                      THEN [regions EXCEPT ![region_no].sub_services[n].items = Append(@, item)]
                      ELSE [regions EXCEPT ![region_no].items = Append(@, item)]
    /\ i' = i + 1
    /\ UNCHANGED <<lines, pc, current_service, current_service_total, current_region,
                   current_sub_service, result, csv_data, response, files, file_no,
                   results, service_lines>>

\* line 211, reached when no branch took the line
V1NoMatch ==
    /\ InBillingText("none")
    /\ i' = i + 1
    /\ UNCHANGED <<lines, pc, current_service, current_service_total, current_region,
                   current_sub_service, regions, result, csv_data, response, files,
                   file_no, results, service_lines>>

\* lines 150 and 213-217
V1Return ==
    /\ pc = "v1"
    /\ i >= Len(lines)
    /\ result' = v1_flushed
    /\ response' = [text |-> Join(v1_flushed, <<"\n">>)]
    /\ pc' = "v1_returned"
    /\ UNCHANGED <<lines, i, current_service, current_service_total, current_region,
                   current_sub_service, regions, csv_data, files, file_no, results,
                   service_lines>>

\* the longest statement given to _parse_billing_text, in lines
MaxV1Lines == 5

\* a service header, two region headers, a sub-service header, a usage line
\* with a quantity and a line no matcher takes
V1Lines == {1, 3, 4, 5, 9, 12}

\* lines 142-149
InitV1 ==
    /\ lines \in Statements(V1Lines, MaxV1Lines)
    /\ i = 0
    /\ pc = "v1"
    /\ result = <<>>
    /\ current_service = None
    /\ current_service_total = <<>>
    /\ current_region = None
    /\ current_sub_service = None
    /\ regions = <<>>
    /\ csv_data = <<>>
    /\ response = NoResponse
    /\ files = <<>>
    /\ file_no = 0
    /\ results = <<>>
    /\ service_lines = <<>>

NextV1 ==
    \/ V1ServiceHeader
    \/ V1RegionHeader
    \/ V1SubServiceHeader
    \/ V1UsageLine
    \/ V1NoMatch
    \/ V1Return

SpecV1 == InitV1 /\ [][NextV1]_vars

(***************************************************************************)
(* C20                                                                     *)
(***************************************************************************)
\* the item lines of a formatted block: after the three heading lines, the
\* lines that hold tabs (a region line is the region name alone)
ItemLinesOf(block) ==
    LET ls == Split(block, "\n")
    IN  SelectSeq(Slice(ls, 4, Len(ls)), LAMBDA l : TabCount(l) = 3)

\* line k of the statement is a service header
V1ServiceAt(k) == v1_service_of[lines[k]].matched

\* how many service headers the statement holds up to line k
ServicesUpTo(k) == Cardinality({s \in 1..k : V1ServiceAt(s)})

\* line k is a usage line or a sub-service header read while a region is
\* active: a service header came before it, a region header came between the
\* last service header and it, and it is neither itself
AcceptedAt(k) ==
    /\ ~V1ServiceAt(k)
    /\ ~v1_region_of[lines[k]].matched
    /\ v1_sub_service_of[lines[k]].matched \/ v1_usage_of[lines[k]].matched
    /\ \E r \in 1..(k - 1) :
          /\ v1_region_of[lines[r]].matched
          /\ ~V1ServiceAt(r)
          /\ ServicesUpTo(r) >= 1
          /\ ServicesUpTo(r) = ServicesUpTo(k)

\* the item line of the accepted line k
AcceptedItemLine(k) ==
    IF v1_sub_service_of[lines[k]].matched
    THEN item_line(UsageItem(v1_sub_service_of[lines[k]].name, <<>>,
                             v1_sub_service_of[lines[k]].total))
    ELSE item_line(UsageItem(v1_usage_of[lines[k]].desc, v1_usage_of[lines[k]].qty,
                             v1_usage_of[lines[k]].amt))

Occurrences(x, s) == Cardinality({k \in 1..Len(s) : s[k] = x})

\* how many accepted lines of the n-th service have the item line x
Accepted(n, x) ==
    Cardinality({k \in 1..Len(lines) :
                    AcceptedAt(k) /\ ServicesUpTo(k) = n /\ AcceptedItemLine(k) = x})

\* C20: when _parse_billing_text has returned, the block of every service
\* shows the item line of each usage line and sub-service header that was
\* accepted under that service as often as it was accepted (once for one
\* accepted line) and shows no other item line, also when a region is
\* named more than once under the service.
C20_AcceptedItemsShownOnce ==
    pc = "v1_returned" =>
        /\ Len(result) = ServicesUpTo(Len(lines))
        /\ \A n \in 1..Len(result) :
              \A shown \in {ItemLinesOf(result[n])} :
                  /\ \A k \in 1..Len(lines) :
                        (AcceptedAt(k) /\ ServicesUpTo(k) = n) =>
                            Occurrences(AcceptedItemLine(k), shown)
                                = Accepted(n, AcceptedItemLine(k))
                  /\ \A j \in 1..Len(shown) : Accepted(n, shown[j]) >= 1

(***************************************************************************)
(* C21                                                                     *)
(***************************************************************************)
\* the longest statement over PassLines, in lines
MaxPassLines == 3

\* a service header, a region header, a sub-service header, a usage line, a
\* blank line, the boilerplate line and a line no classifier takes
PassLines == {1, 3, 4, 5, 7, 8, 14}

InitPass == Start(Statements(PassLines, MaxPassLines))

\* Both loops are "while i < len(lines)" with nothing that waits: a step
\* that can be taken is taken.
SpecPass == InitPass /\ [][NextReport]_vars /\ WF_vars(NextReport)

\* C21: both parse loops are one forward pass.  While a loop runs, every
\* step, whatever branch takes the line (blank, boilerplate, header, usage,
\* no match), reads line i of the unchanged statement and moves i on by
\* exactly one; a loop is left only when i is the number of lines; and each
\* loop is left, so it ends after as many steps as there are lines.
C21_SingleForwardPass ==
    /\ [][(pc \in {"loop", "report"} /\ i < Len(lines)) =>
              /\ i' = i + 1
              /\ pc' = pc
              /\ lines' = lines]_vars
    /\ [][(pc \in {"loop", "report"} /\ pc' # pc) => i = Len(lines) /\ i' = i]_vars
    /\ [](pc \in {"loop", "report"} => i \in 0..Len(lines))
    /\ <>(pc = "returned")
    /\ <>(pc = "report_returned")

\* C21 witness: a statement of three lines that every kind of branch has
\* read, a blank line among them, has been passed over by both loops.
C21_Witness ==
    /\ pc = "report_returned"
    /\ Len(lines) = 3
    /\ i = 3
    /\ Len(csv_data) = 1
    /\ \E k \in 1..3 : Text[lines[k]] = <<>>
=============================================================================
